---- MODULE Spec2Model ----
(***************************************************************************)
(* Ingest-to-insight pipeline of the activity collector:                   *)
(* normalizer, PrivacyGuard, PriorityProcessor, EventBus, IngestHandler    *)
(* and the handoff size guard.                                             *)
(*                                                                         *)
(* Conventions of the model                                                *)
(*   - Python None / Optional[x] is the empty sequence <<>>, a present     *)
(*     value x is <<x>>.                                                   *)
(*   - Time is counted in half-second ticks, so that the 0.5 s offsets and *)
(*     fractional debounce windows of the code are representable; a        *)
(*     timestamp string is "ts:<tick>", int(seconds) of d ticks is d \div 2.*)
(*   - hmac_sha256 is an injective symbolic digest "hmac(<value>)"; a      *)
(*     string is a 64-hex digest exactly if it has that form.              *)
(***************************************************************************)
EXTENDS Integers, Sequences, FiniteSets, TLC

VARIABLES
    debounce_seconds,   \* PriorityProcessor.debounce_seconds, in ticks
    _last_event_ts,     \* PriorityProcessor._last_event_ts: key -> epoch tick
    _focus_state,       \* PriorityProcessor._focus_state: <<>> or <<FocusState>>
    counters,           \* Observability counters: name -> count
    calls,              \* number of PriorityProcessor.process calls so far
    returned,           \* the latest PriorityProcessor.process call and its result
    seen,               \* debounce keys of the envelopes handed to process so far
    survived,           \* debounce-type envelopes process has returned so far
    config,             \* validation level, queue size, ingest token, privacy rules
    _queue,             \* EventBus._queue: the inbound objects waiting, oldest first
    _buffer,            \* EventBus._buffer: envelopes waiting for the next insert
    stopped,            \* EventBus._stop_event
    events,             \* rows of the events table, in insertion order
    pending,            \* rows inserted on the connection and not yet committed
    response,           \* the response to the latest HTTP request, and its ordinal
    posted,             \* the inbound objects enqueued so far, in order
    minted,             \* number of uuid4 identifiers drawn so far
    _lock,              \* SQLiteStore._lock: <<>> or <<the thread that holds it>>
    threads,            \* where each thread is in the code it runs
    since_flush,        \* ticks since EventBus._last_flush, up to the interval
    appended,           \* the outputs appended to _buffer so far, oldest first,
                        \* each with the ordinal of the queue item being handled
    handed,             \* the rows passed to store.insert_events so far, in order
    subject,            \* the arguments a function under study is applied to
    image               \* its successive results, first application first

priorityVars == <<debounce_seconds, _last_event_ts, _focus_state>>

callVars == <<calls, returned, seen, survived>>

logVars == <<appended, handed>>

ghostVars == <<callVars, logVars>>

threadVars == <<_lock, threads, since_flush>>

busVars ==
    <<config, _queue, _buffer, stopped, events, pending, response, posted,
      minted, _lock, threads, since_flush>>

pureVars == <<subject, image>>

vars == <<priorityVars, counters, ghostVars, busVars, pureVars>>

(***************************************************************************)
(* Field vocabulary.  EventEnvelopeFields are the fields of                *)
(* models.EventEnvelope in declaration order; every record of the model    *)
(* lists its fields in the order fixed here.                               *)
(***************************************************************************)
EventEnvelopeFields ==
    <<"schema_version", "event_id", "ts", "source", "app", "event_type",
      "priority", "resource", "payload", "privacy", "pid", "window_id", "raw">>

RecordFields ==
    <<"type", "id", "pii_level", "redaction", "kind", "str", "num", "flag",
      "items", "map", "envelope", "epoch", "drop", "last", "out", "focus",
      "interval", "first", "pressure", "key", "ordinal", "error", "value",
      "mask_keys", "hash_keys", "length_limits", "url_policy",
      "redaction_patterns", "drop_payload_keys", "allowlist_apps",
      "denylist_apps", "denylist_action", "allow_full_url", "keep_domain_only",
      "status", "body", "queued", "count", "metrics", "level",
      "max_size", "validation_level", "token", "rules", "path", "header",
      "content", "insert_batch_size", "ok", "queue", "buffer", "events",
      "request", "minted", "passed", "size_bytes", "session_id", "resources",
      "pattern_id", "pattern_json", "support", "confidence", "last_seen_ts",
      "evidence_session_ids", "store", "recent_sessions",
      "routine_candidates", "sessions", "routines", "recent_routines",
      "max_resources", "max_evidence", "max_size_bytes", "current", "last_ts",
      "gap_seconds", "start_ts", "end_ts", "key_events", "session_ids",
      "last_seen", "weekday_counts", "n_min", "n_max", "min_support",
      "max_patterns", "now", "outcome", "row", "attempt", "sleep", "rows",
      "retry_attempts", "retry_backoff_ms", "id", "status", "tables", "policy",
      "days", "batch_size">>

(***************************************************************************)
(* Bounds                                                                  *)
(***************************************************************************)
MaxCalls == 3
MaxTick == 3

None == <<>>
Some(x) == <<x>>

Ticks == 0 .. MaxTick

(***************************************************************************)
(* JSON values of payloads and inbound objects                             *)
(***************************************************************************)
JNull == [kind |-> "null"]
JStr(s) == [kind |-> "str", str |-> s]
JInt(n) == [kind |-> "int", num |-> n]
JBool(b) == [kind |-> "bool", flag |-> b]
JList(xs) == [kind |-> "list", items |-> xs]
JDict(d) == [kind |-> "dict", map |-> d]

\* dict.get(key) on a JSON object held as a function from its keys
Get(d, k) == IF k \in DOMAIN d THEN d[k] ELSE JNull

\* bool(value)
Truthy(v) ==
    CASE v.kind = "null" -> FALSE
      [] v.kind = "str" -> v.str # ""
      [] v.kind = "int" -> v.num # 0
      [] v.kind = "bool" -> v.flag
      [] v.kind = "list" -> v.items # <<>>
      [] v.kind = "dict" -> DOMAIN v.map # {}

\* isinstance(value, (int, float)); a bool is an int
IsNumber(v) == v.kind \in {"int", "bool"}

\* int(value) of a number
NumberOf(v) == IF v.kind = "bool" THEN (IF v.flag THEN 1 ELSE 0) ELSE v.num

\* value in (None, "")
NoneOrEmpty(v) == v = JNull \/ v = JStr("")

(***************************************************************************)
(* Python str operations, character by character                           *)
(***************************************************************************)
Char(s, i) == SubSeq(s, i, i)

Suffix(s, i) == SubSeq(s, i, Len(s))

UpperAlphabet == "ABCDEFGHIJKLMNOPQRSTUVWXYZ"

LowerAlphabet == "abcdefghijklmnopqrstuvwxyz"

Letters ==
    {Char(UpperAlphabet, i) : i \in 1 .. Len(UpperAlphabet)}
        \cup {Char(LowerAlphabet, i) : i \in 1 .. Len(LowerAlphabet)}

Digits == {"0", "1", "2", "3", "4", "5", "6", "7", "8", "9"}

UpperLetters == {Char(UpperAlphabet, i) : i \in 1 .. Len(UpperAlphabet)}

LowerOf ==
    [c \in UpperLetters |->
        Char(LowerAlphabet,
             CHOOSE i \in 1 .. Len(UpperAlphabet) : Char(UpperAlphabet, i) = c)]

LowerChar(c) == IF c \in UpperLetters THEN LowerOf[c] ELSE c

RECURSIVE PyLower(_)
\* str.lower
PyLower(s) ==
    IF \A i \in 1 .. Len(s) : Char(s, i) \notin UpperLetters THEN s
    ELSE LowerChar(Char(s, 1)) \o PyLower(Suffix(s, 2))

RECURSIVE PyStrip(_)
\* str.strip
PyStrip(s) ==
    IF s = "" THEN ""
    ELSE IF Char(s, 1) = " " THEN PyStrip(Suffix(s, 2))
    ELSE IF Char(s, Len(s)) = " " THEN PyStrip(SubSeq(s, 1, Len(s) - 1))
    ELSE s

\* the first position >= from where part occurs in s, 0 when there is none
Find(s, part, from) ==
    LET hits == {i \in from .. (Len(s) - Len(part) + 1) :
                     SubSeq(s, i, i + Len(part) - 1) = part}
    IN  IF hits = {} THEN 0 ELSE CHOOSE i \in hits : \A j \in hits : i <= j

\* the last position of the run of characters of class that starts at p
\* (p - 1 when s[p] is not in the class)
RunEnd(s, p, class) ==
    CHOOSE e \in (p - 1) .. Len(s) :
        /\ \A k \in p .. e : Char(s, k) \in class
        /\ e = Len(s) \/ Char(s, e + 1) \notin class

\* the first position >= lo of the run of characters of class that ends at q
\* (q + 1 when s[q] is not in the class)
RunStart(s, q, class, lo) ==
    CHOOSE b \in lo .. (q + 1) :
        /\ \A k \in b .. q : Char(s, k) \in class
        /\ b = lo \/ Char(s, b - 1) \notin class

IsDigits(s) == s # "" /\ \A i \in 1 .. Len(s) : Char(s, i) \in Digits

DigitValue(c) == CHOOSE n \in 0 .. 9 : ToString(n) = c

RECURSIVE ParseNat(_)
\* int(s) of a string of digits
ParseNat(s) ==
    IF Len(s) = 1 THEN DigitValue(s)
    ELSE 10 * ParseNat(SubSeq(s, 1, Len(s) - 1)) + DigitValue(Char(s, Len(s)))

RECURSIVE PyRepr(_)
RECURSIVE ReprItems(_)
RECURSIVE ReprEntries(_, _)
\* repr(value); the entries of a dict are listed in a fixed order of the keys
PyRepr(v) ==
    CASE v.kind = "null" -> "None"
      [] v.kind = "str" -> "'" \o v.str \o "'"
      [] v.kind = "int" -> ToString(v.num)
      [] v.kind = "bool" -> IF v.flag THEN "True" ELSE "False"
      [] v.kind = "list" -> "[" \o ReprItems(v.items) \o "]"
      [] v.kind = "dict" -> "{" \o ReprEntries(v.map, DOMAIN v.map) \o "}"

ReprItems(xs) ==
    IF xs = <<>> THEN ""
    ELSE IF Len(xs) = 1 THEN PyRepr(xs[1])
    ELSE PyRepr(xs[1]) \o ", " \o ReprItems(Tail(xs))

ReprEntries(d, keys) ==
    IF keys = {} THEN ""
    ELSE LET k == CHOOSE x \in keys : TRUE
             entry == "'" \o k \o "': " \o PyRepr(d[k])
         IN  IF keys = {k} THEN entry
             ELSE entry \o ", " \o ReprEntries(d, keys \ {k})

\* str(value)
PyStr(v) == IF v.kind = "str" THEN v.str ELSE PyRepr(v)

(***************************************************************************)
(* The email pattern [A-Za-z0-9._%+-]+@[A-Za-z0-9.-]+\.[A-Za-z]{2,}        *)
(* (privacy.EMAIL_PATTERN, handoff.EMAIL_RE), matched greedily             *)
(***************************************************************************)
EmailLocalChars == Letters \cup Digits \cup {".", "_", "%", "+", "-"}

EmailDomainChars == Letters \cup Digits \cup {".", "-"}

\* The match whose "@" is at position i, searching from position lo:
\* <<start, end>>, or <<>> when there is none.
EmailAt(s, i, lo) ==
    LET start == RunStart(s, i - 1, EmailLocalChars, lo)
        run == RunEnd(s, i + 1, EmailDomainChars)
        dots == {j \in (i + 2) .. run :
                    /\ Char(s, j) = "."
                    /\ j + 2 <= Len(s)
                    /\ Char(s, j + 1) \in Letters
                    /\ Char(s, j + 2) \in Letters}
    IN  IF Char(s, i) # "@" \/ start > i - 1 \/ dots = {} THEN <<>>
        ELSE LET dot == CHOOSE j \in dots : \A k \in dots : k <= j
             IN  <<start, RunEnd(s, dot + 1, Letters)>>

\* the position >= lo of the first "@" that carries a match, 0 when none does
FirstAt(s, lo) ==
    IF \E i \in lo .. Len(s) : EmailAt(s, i, lo) # <<>>
    THEN CHOOSE i \in lo .. Len(s) :
            /\ EmailAt(s, i, lo) # <<>>
            /\ \A j \in lo .. (i - 1) : EmailAt(s, j, lo) = <<>>
    ELSE 0

RECURSIVE EmailMatches(_, _)
RECURSIVE MatchesAfter(_, _)
\* re.finditer: the non-overlapping matches from position lo on, left to right
EmailMatches(s, lo) ==
    IF FirstAt(s, lo) = 0 THEN <<>>
    ELSE MatchesAfter(s, EmailAt(s, FirstAt(s, lo), lo))

\* the match m and the matches after it
MatchesAfter(s, m) == <<m>> \o EmailMatches(s, m[2] + 1)

Slices(s, ms) == [i \in DOMAIN ms |-> SubSeq(s, ms[i][1], ms[i][2])]

\* EMAIL_PATTERN.findall(value)
EmailFindAll(s) == Slices(s, EmailMatches(s, 1))

\* EMAIL_PATTERN.search(value) is not None
ContainsEmail(s) == \E i \in 1 .. Len(s) : EmailAt(s, i, 1) # <<>>

REDACTION_TOKEN == "[REDACTED]"

RECURSIVE Splice(_, _, _)
\* s from position lo on, with the matches ms replaced by the token
Splice(s, ms, lo) ==
    IF ms = <<>> THEN Suffix(s, lo)
    ELSE SubSeq(s, lo, ms[1][1] - 1) \o REDACTION_TOKEN
             \o Splice(s, Tail(ms), ms[1][2] + 1)

\* pattern.sub(REDACTION_TOKEN, value) for the email pattern
EmailSub(s) == Splice(s, EmailMatches(s, 1), 1)

(***************************************************************************)
(* utils/time.py, utils/hashing.py                                         *)
(***************************************************************************)
TsString(n) == "ts:" \o ToString(n)

GarbageTs == "not-a-timestamp"

\* parse_ts: the epoch of an ISO-8601 string, None when it does not parse.
parse_ts(value) ==
    IF Len(value) > 3 /\ SubSeq(value, 1, 3) = "ts:" /\ IsDigits(Suffix(value, 4))
    THEN Some(ParseNat(Suffix(value, 4)))
    ELSE None

hmac_sha256(value) == "hmac(" \o value \o ")"

\* a string is the hex digest of an HMAC exactly if it has the digest form
IsDigest(s) == Len(s) > 6 /\ SubSeq(s, 1, 5) = "hmac(" /\ Char(s, Len(s)) = ")"

(***************************************************************************)
(* utils/masking.py                                                        *)
(***************************************************************************)
truncate(value, max_len) ==
    IF max_len <= 0 THEN value
    ELSE IF Len(value) <= max_len THEN value
    ELSE SubSeq(value, 1, max_len)

RECURSIVE mask_patterns(_, _)
\* patterns is a list of pattern names; "email" is the email pattern
mask_patterns(value, patterns) ==
    IF patterns = <<>> THEN value
    ELSE mask_patterns(IF Head(patterns) = "email" THEN EmailSub(value)
                       ELSE value,
                       Tail(patterns))

\* urlparse(value).netloc: the text between "//" after the scheme and the
\* next "/", "?" or "#"
Netloc(value) ==
    LET scheme == Find(value, "://", 1)
        start == IF SubSeq(value, 1, 2) = "//" THEN 3
                 ELSE IF scheme > 0 THEN scheme + 3 ELSE 0
    IN  IF start = 0 THEN ""
        ELSE SubSeq(value, start,
                    RunEnd(value, start,
                           {Char(value, i) : i \in 1 .. Len(value)}
                               \ {"/", "?", "#"}))

sanitize_url(value, keep_domain_only) ==
    IF ~keep_domain_only THEN value
    ELSE IF Netloc(value) # "" THEN Netloc(value)
    ELSE value

(***************************************************************************)
(* models.py                                                               *)
(***************************************************************************)
DEFAULT_SCHEMA_VERSION == "1.0"

VALID_PRIORITIES == {"P0", "P1", "P2"}

ResourceRef(type, id) == [type |-> type, id |-> id]

PrivacyMetadata(pii_level, redaction) ==
    [pii_level |-> pii_level, redaction |-> redaction]

EventEnvelope(schema_version, event_id, ts, source, app, event_type, priority, resource, payload, privacy, pid, window_id, raw) ==
    [schema_version |-> schema_version, event_id |-> event_id, ts |-> ts,
     source |-> source, app |-> app, event_type |-> event_type,
     priority |-> priority, resource |-> resource, payload |-> payload,
     privacy |-> privacy, pid |-> pid, window_id |-> window_id, raw |-> raw]

(***************************************************************************)
(* observability.py                                                        *)
(***************************************************************************)
CounterNames ==
    {"drop.reason.debounce", "drop.reason.queue_overflow",
     "drop.reason.queue_full", "drop.reason.allowlist", "drop.reason.denylist",
     "drop.reason.schema", "drop.reason.store_fail", "pipeline.dropped_total",
     "privacy.denied_total", "privacy.redacted_total", "ingest.received_total",
     "ingest.ok_total", "ingest.invalid_total", "store.insert_ok_total",
     "store.insert_fail_total", "priority.p0_total", "priority.p1_total",
     "priority.p2_total"}

inc(c, name, count) == IF name = "" THEN c ELSE [c EXCEPT ![name] = @ + count]

record_drop(c, reason) ==
    IF reason = "" THEN inc(c, "pipeline.dropped_total", 1)
    ELSE inc(inc(c, "pipeline.dropped_total", 1), "drop.reason." \o reason, 1)

record_priority(c, priority) ==
    IF priority \in VALID_PRIORITIES
    THEN inc(c, "priority." \o PyLower(priority) \o "_total", 1)
    ELSE c

record_privacy_denied(c) == record_drop(inc(c, "privacy.denied_total", 1), "denylist")

record_privacy_redacted(c) == inc(c, "privacy.redacted_total", 1)

record_ingest_invalid(c) == record_drop(inc(c, "ingest.invalid_total", 1), "schema")

record_store_insert_ok(c) == inc(c, "store.insert_ok_total", 1)

record_store_insert_fail(c) ==
    record_drop(inc(c, "store.insert_fail_total", 1), "store_fail")

(***************************************************************************)
(* normalize.py.  An operation that can raise yields a record: error is    *)
(* "" and value is the result, or error is the exception raised.           *)
(***************************************************************************)
SUPPORTED_MIN_VERSION == <<1, 0>>

SUPPORTED_MAX_VERSION == <<1, 0>>

Ok(v) == [error |-> "", value |-> v]

NormalizationError(message) ==
    [error |-> "NormalizationError: " \o message, value |-> None]

TypeError(message) == [error |-> "TypeError: " \o message, value |-> None]

\* uuid.uuid4() and uuid.UUID(s): a UUID string is "uuid-<n>"
UuidString(n) == "uuid-" \o ToString(n)

IsUuid(s) == Len(s) > 5 /\ SubSeq(s, 1, 5) = "uuid-" /\ IsDigits(Suffix(s, 6))

\* tuple comparison of two (major, minor) versions
VersionLess(a, b) == a[1] < b[1] \/ (a[1] = b[1] /\ a[2] < b[2])

\* _parse_version: Some(<<major, minor>>) or None
_parse_version(value) ==
    LET dot == Find(value, ".", 1)
    IN  IF dot = 0 THEN None
        ELSE LET major_str == SubSeq(value, 1, dot - 1)
                 minor_str == Suffix(value, dot + 1)
             IN  IF IsDigits(major_str) /\ IsDigits(minor_str)
                 THEN Some(<<ParseNat(major_str), ParseNat(minor_str)>>)
                 ELSE None

\* dt.datetime.utcfromtimestamp(value).isoformat() + "Z" for value seconds
IsoOfSeconds(n) == TsString(2 * n)

_normalize_ts(value, allow_missing_required, level, now) ==
    IF NoneOrEmpty(value)
    THEN IF allow_missing_required THEN Ok(now)
         ELSE NormalizationError("missing ts")
    ELSE IF value.kind = "str" THEN Ok(value.str)
    ELSE IF level = "strict" THEN NormalizationError("invalid ts")
    ELSE IF IsNumber(value) THEN Ok(IsoOfSeconds(NumberOf(value)))
    ELSE Ok(now)

\* a variant of _normalize_event_id that mints a new id for every call
_normalize_event_id_always_fresh(value, allow_missing_required, level, fresh) ==
    IF ~Truthy(value) /\ ~allow_missing_required
    THEN NormalizationError("missing event_id")
    ELSE Ok(fresh)

_normalize_event_id(value, allow_missing_required, level, fresh) ==
    IF ~Truthy(value)
    THEN IF allow_missing_required THEN Ok(fresh)
         ELSE NormalizationError("missing event_id")
    ELSE IF level = "strict" /\ ~IsUuid(PyStr(value))
         THEN NormalizationError("invalid event_id")
         ELSE Ok(PyStr(value))

\* a variant of _normalize_required_str without the "unknown" default
_normalize_required_str_no_default(value, name, allow_missing_required) ==
    IF NoneOrEmpty(value)
    THEN IF allow_missing_required THEN Ok("")
         ELSE NormalizationError("missing " \o name)
    ELSE Ok(PyStr(value))

_normalize_required_str(value, name, allow_missing_required) ==
    IF NoneOrEmpty(value)
    THEN IF allow_missing_required THEN Ok("unknown")
         ELSE NormalizationError("missing " \o name)
    ELSE Ok(PyStr(value))

\* value in VALID_PRIORITIES hashes value: a list or a dict raises TypeError
_normalize_priority(value, allow_missing_required) ==
    IF ~Truthy(value)
    THEN IF allow_missing_required THEN Ok("P1")
         ELSE NormalizationError("missing priority")
    ELSE IF value.kind \in {"list", "dict"} THEN TypeError("unhashable type")
    ELSE IF value.kind = "str" /\ value.str \in VALID_PRIORITIES THEN Ok(value.str)
    ELSE IF allow_missing_required THEN Ok("P1")
    ELSE NormalizationError("invalid priority")

_normalize_payload(value, allow_missing_required, level) ==
    IF value = JNull
    THEN IF allow_missing_required THEN Ok(<<>>)
         ELSE NormalizationError("missing payload")
    ELSE IF value.kind = "dict" THEN Ok(value.map)
    ELSE IF level = "strict" /\ ~allow_missing_required
         THEN NormalizationError("payload must be an object")
         ELSE Ok(<<>>)

_normalize_resource(value, allow_missing_required) ==
    IF value.kind # "dict"
    THEN IF allow_missing_required THEN Ok(ResourceRef("unknown", "unknown"))
         ELSE NormalizationError("missing resource")
    ELSE LET r_type == Get(value.map, "type")
             r_id == Get(value.map, "id")
         IN  IF NoneOrEmpty(r_type) \/ NoneOrEmpty(r_id)
             THEN IF allow_missing_required
                  THEN Ok(ResourceRef("unknown", "unknown"))
                  ELSE NormalizationError("invalid resource")
             ELSE Ok(ResourceRef(PyStr(r_type), PyStr(r_id)))

_normalize_privacy(value, allow_missing_required, level) ==
    IF value.kind # "dict"
    THEN IF allow_missing_required THEN Ok(PrivacyMetadata("unknown", <<>>))
         ELSE NormalizationError("missing privacy")
    ELSE LET given == Get(value.map, "pii_level")
             redaction == Get(value.map, "redaction")
             pii_level == IF Truthy(given) THEN PyStr(given) ELSE "unknown"
             tolerant == ~(level = "strict" /\ ~allow_missing_required)
         IN  IF ~Truthy(given) /\ ~allow_missing_required
             THEN NormalizationError("missing privacy.pii_level")
             ELSE IF redaction = JNull
             THEN IF tolerant THEN Ok(PrivacyMetadata(pii_level, <<>>))
                  ELSE NormalizationError("missing privacy.redaction")
             ELSE IF redaction.kind = "list"
             THEN Ok(PrivacyMetadata(pii_level,
                        [i \in DOMAIN redaction.items |-> PyStr(redaction.items[i])]))
             ELSE IF tolerant THEN Ok(PrivacyMetadata(pii_level, <<>>))
                  ELSE NormalizationError("invalid privacy.redaction")

\* int(value) succeeds on a number and on a string of digits
_normalize_pid(value) ==
    IF value = JNull THEN None
    ELSE IF IsNumber(value) THEN Some(NumberOf(value))
    ELSE IF value.kind = "str" /\ IsDigits(value.str) THEN Some(ParseNat(value.str))
    ELSE None

_normalize_window_id(value) ==
    IF value = JNull THEN None
    ELSE IF IsNumber(value) THEN Some(ToString(NumberOf(value)))
    ELSE IF value.kind = "str" /\ value.str # "" THEN Some(value.str)
    ELSE None

RequiredFields ==
    {"schema_version", "event_id", "ts", "source", "app", "event_type",
     "priority", "resource", "payload", "privacy"}

_ensure_required_fields_present(raw) ==
    IF RequiredFields \subseteq DOMAIN raw THEN Ok(None)
    ELSE NormalizationError("missing required fields")

\* the first exception raised by a sequence of steps, "" when none raises
FirstError(steps) ==
    IF \A i \in DOMAIN steps : steps[i].error = "" THEN ""
    ELSE steps[CHOOSE i \in DOMAIN steps :
                  /\ steps[i].error # ""
                  /\ \A j \in 1 .. (i - 1) : steps[j].error = ""].error

\* normalize_event(raw, validation_level), with the uuid4 and the clock
\* reading it would draw: the envelope, or the exception it raises
normalize_event(raw, validation_level, fresh, now) ==
    LET level == PyLower(PyStrip(validation_level))
        given_version == Get(raw, "schema_version")
        stated == IF Truthy(given_version) THEN PyStr(given_version)
                  ELSE DEFAULT_SCHEMA_VERSION
        schema_version == IF _parse_version(stated) = None
                          THEN DEFAULT_SCHEMA_VERSION ELSE stated
        version == _parse_version(schema_version)[1]
        compat_back == VersionLess(version, SUPPORTED_MIN_VERSION)
        compat_forward == VersionLess(SUPPORTED_MAX_VERSION, version)
        allow_missing_required == level = "lenient" \/ compat_back
        event_id == _normalize_event_id(Get(raw, "event_id"),
                                        allow_missing_required, level, fresh)
        ts == _normalize_ts(Get(raw, "ts"), allow_missing_required, level, now)
        source == _normalize_required_str(Get(raw, "source"), "source",
                                          allow_missing_required)
        app == _normalize_required_str(Get(raw, "app"), "app",
                                       allow_missing_required)
        event_type == _normalize_required_str(Get(raw, "event_type"), "event_type",
                                              allow_missing_required)
        priority == _normalize_priority(Get(raw, "priority"), allow_missing_required)
        resource == _normalize_resource(Get(raw, "resource"), allow_missing_required)
        payload == _normalize_payload(Get(raw, "payload"), allow_missing_required,
                                      level)
        privacy == _normalize_privacy(Get(raw, "privacy"), allow_missing_required,
                                      level)
        present == IF compat_forward /\ level = "strict"
                   THEN _ensure_required_fields_present(raw) ELSE Ok(None)
        raised == FirstError(<<event_id, ts, source, app, event_type, priority,
                               resource, payload, privacy, present>>)
    IN  IF level \notin {"lenient", "strict"}
        THEN [envelope |-> None,
              error |-> "NormalizationError: unknown validation level"]
        ELSE IF _parse_version(stated) = None /\ level = "strict"
        THEN [envelope |-> None,
              error |-> "NormalizationError: invalid schema_version"]
        ELSE IF raised # "" THEN [envelope |-> None, error |-> raised]
        ELSE [envelope |->
                 Some(EventEnvelope(schema_version, event_id.value, ts.value,
                                    source.value, app.value, event_type.value,
                                    priority.value, resource.value, payload.value,
                                    privacy.value,
                                    _normalize_pid(Get(raw, "pid")),
                                    _normalize_window_id(Get(raw, "window_id")),
                                    raw)),
              error |-> ""]

(***************************************************************************)
(* privacy.py.  The guard's metrics are threaded through apply; a dict is  *)
(* iterated in a fixed order of its keys.                                  *)
(***************************************************************************)
EMAIL_KEYS == {"recipients", "recipient", "to", "cc", "bcc", "email", "emails"}

PrivacyRules(mask_keys, hash_keys, length_limits, url_policy, redaction_patterns, drop_payload_keys, allowlist_apps, denylist_apps, denylist_action) ==
    [mask_keys |-> mask_keys, hash_keys |-> hash_keys,
     length_limits |-> length_limits, url_policy |-> url_policy,
     redaction_patterns |-> redaction_patterns,
     drop_payload_keys |-> drop_payload_keys, allowlist_apps |-> allowlist_apps,
     denylist_apps |-> denylist_apps, denylist_action |-> denylist_action]

_hash_value(value) == hmac_sha256(value)

RECURSIVE _dedupe(_)
_dedupe(values) ==
    IF values = <<>> THEN <<>>
    ELSE LET last == values[Len(values)]
             front == SubSeq(values, 1, Len(values) - 1)
         IN  IF \E i \in DOMAIN front : front[i] = last THEN _dedupe(front)
             ELSE Append(_dedupe(front), last)

RECURSIVE _collect_emails(_)
RECURSIVE CollectItems(_)
RECURSIVE CollectValues(_, _)
_collect_emails(value) ==
    CASE value.kind = "str" -> EmailFindAll(value.str)
      [] value.kind = "dict" -> CollectValues(value.map, DOMAIN value.map)
      [] value.kind = "list" -> CollectItems(value.items)
      [] OTHER -> <<>>

CollectItems(xs) ==
    IF xs = <<>> THEN <<>> ELSE _collect_emails(Head(xs)) \o CollectItems(Tail(xs))

CollectValues(d, keys) ==
    IF keys = {} THEN <<>>
    ELSE LET k == CHOOSE x \in keys : TRUE
         IN  _collect_emails(d[k]) \o CollectValues(d, keys \ {k})

\* a variant of _extract_domain that keeps the local part
_extract_domain_whole_address(email) ==
    IF Find(email, "@", 1) = 0 THEN "" ELSE PyStrip(PyLower(email))

_extract_domain(email) ==
    LET at == Find(email, "@", 1)
    IN  IF at = 0 THEN "" ELSE PyStrip(Suffix(PyLower(email), at + 1))

\* Some(count) or None
_coerce_recipient_count(value) ==
    IF IsNumber(value) THEN Some(NumberOf(value))
    ELSE IF value.kind = "str"
         THEN IF PyStrip(value.str) # "" THEN Some(1) ELSE None
    ELSE IF value.kind = "dict" /\ IsNumber(Get(value.map, "count"))
         THEN Some(NumberOf(Get(value.map, "count")))
    ELSE IF value.kind = "list" THEN Some(Len(value.items))
    ELSE None

\* the summary of the addresses found, for a non-empty list of them
DomainSummary(emails) ==
    LET domains == {_extract_domain(emails[i]) : i \in DOMAIN emails} \ {""}
        domain_stats ==
            [d \in domains |->
                JInt(Cardinality({i \in DOMAIN emails :
                                     _extract_domain(emails[i]) = d}))]
    IN  IF domains # {}
        THEN JDict([k \in {"count", "domain_stats"} |->
                       IF k = "count" THEN JInt(Len(emails))
                       ELSE JDict(domain_stats)])
        ELSE JDict([k \in {"count"} |-> JInt(Len(emails))])

CountSummary(count) ==
    IF count = None THEN JDict([k \in {"count"} |-> JInt(0)])
    ELSE JDict([k \in {"count"} |-> JInt(count[1])])

Summary(value, emails) ==
    IF emails # <<>> THEN DomainSummary(emails)
    ELSE CountSummary(_coerce_recipient_count(value))

_summarize_recipients(value) == Summary(value, _collect_emails(value))

\* url_policy.get(name, default) as a bool
UrlPolicy(rules, name, default) ==
    IF name \in DOMAIN rules.url_policy THEN rules.url_policy[name] ELSE default

\* PrivacyGuard._sanitize_payload_value: the redaction tags it appends and
\* the value it returns
_sanitize_payload_value(rules, url_mode, key, value) ==
    LET key_norm == PyLower(key)
        allow_full == IF url_mode = "full" THEN TRUE
                      ELSE IF url_mode = "domain" THEN FALSE
                      ELSE UrlPolicy(rules, "allow_full_url", FALSE)
        keep_domain_only == IF url_mode = "full" THEN FALSE
                            ELSE IF url_mode = "domain" THEN TRUE
                            ELSE UrlPolicy(rules, "keep_domain_only", TRUE)
        is_url == key_norm = "url" /\ ~allow_full
        is_mask == key_norm \in rules.mask_keys
        max_len == IF key_norm \in DOMAIN rules.length_limits
                   THEN rules.length_limits[key_norm] ELSE 0
    IN  IF key_norm \in rules.hash_keys
        THEN [redaction |-> <<"hash:" \o key_norm>>,
              value |-> JStr(_hash_value(PyStr(value)))]
        ELSE IF value.kind # "str" THEN [redaction |-> <<>>, value |-> value]
        ELSE LET after_url == IF is_url
                              THEN sanitize_url(value.str, keep_domain_only)
                              ELSE value.str
                 after_mask == IF is_mask
                               THEN mask_patterns(after_url, rules.redaction_patterns)
                               ELSE after_url
             IN  [redaction |->
                     (IF is_url THEN <<"url_sanitized">> ELSE <<>>)
                         \o (IF is_mask THEN <<"mask:" \o key_norm>> ELSE <<>>),
                  value |-> JStr(truncate(after_mask, max_len))]

\* acc with the dict entry key set to value and the tags appended
Put(acc, tags, key, value) ==
    [redaction |-> acc.redaction \o tags,
     map |-> [k \in DOMAIN acc.map \cup {key} |->
                 IF k = key THEN value ELSE acc.map[k]]]

Keep(acc, key, kept) == Put(acc, kept.redaction, key, kept.value)

\* one pass of the loop of apply over envelope.payload.items()
SanitizeItem(rules, url_mode, acc, key, key_norm, value) ==
    IF key_norm \in rules.drop_payload_keys
    THEN [redaction |-> Append(acc.redaction, "drop:" \o key_norm),
          map |-> acc.map]
    ELSE IF key_norm \in EMAIL_KEYS
    THEN Put(acc, <<"recipients_summarized:" \o key_norm>>, key,
             _summarize_recipients(value))
    ELSE Keep(acc, key, _sanitize_payload_value(rules, url_mode, key, value))

RECURSIVE SanitizeItems(_, _, _, _, _)
RECURSIVE SanitizeRest(_, _, _, _, _, _)
\* the loop of apply over envelope.payload.items(): the redaction tags and
\* the sanitized dict after the keys still to visit
SanitizeItems(rules, url_mode, payload, keys, acc) ==
    IF keys = {} THEN acc
    ELSE SanitizeRest(rules, url_mode, payload, keys, acc, CHOOSE x \in keys : TRUE)

SanitizeRest(rules, url_mode, payload, keys, acc, key) ==
    SanitizeItems(rules, url_mode, payload, keys \ {key},
                  SanitizeItem(rules, url_mode, acc, key, PyLower(key),
                               payload[key]))

\* the envelope apply returns for the sanitized items, and the metrics
Guarded(envelope, hash_window, hash_resource, items, metrics) ==
    [envelope |->
        Some([envelope EXCEPT
                !.resource =
                    IF hash_resource
                    THEN ResourceRef(envelope.resource.type,
                                     _hash_value(envelope.resource.id))
                    ELSE @,
                !.payload = items.map,
                !.privacy = PrivacyMetadata(envelope.privacy.pii_level,
                                            _dedupe(items.redaction)),
                !.window_id =
                    IF hash_window THEN Some(_hash_value(envelope.window_id[1]))
                    ELSE @]),
     metrics |-> IF items.redaction # <<>>
                 THEN record_privacy_redacted(metrics) ELSE metrics]

\* a variant of apply that consults neither the allowlist nor the denylist
apply_without_app_lists(rules, url_mode, envelope, metrics) ==
    LET hash_window == envelope.window_id # None /\ envelope.window_id[1] # ""
        hash_resource == envelope.resource.id # "" /\ envelope.resource.id # "unknown"
        redactions ==
            envelope.privacy.redaction
                \o (IF hash_window THEN <<"window_id_hashed">> ELSE <<>>)
                \o (IF hash_resource THEN <<"resource_id_hashed">> ELSE <<>>)
    IN  Guarded(envelope, hash_window, hash_resource,
                SanitizeItems(rules, url_mode, envelope.payload,
                              DOMAIN envelope.payload,
                              [redaction |-> redactions, map |-> <<>>]),
                metrics)

\* PrivacyGuard.apply: the envelope returned (None when dropped) and the
\* metrics after the call
apply(rules, url_mode, envelope, metrics) ==
    LET app_key == PyLower(envelope.app)
        hash_window == envelope.window_id # None /\ envelope.window_id[1] # ""
        hash_resource == envelope.resource.id # "" /\ envelope.resource.id # "unknown"
        redactions ==
            envelope.privacy.redaction
                \o (IF hash_window THEN <<"window_id_hashed">> ELSE <<>>)
                \o (IF hash_resource THEN <<"resource_id_hashed">> ELSE <<>>)
    IN  IF rules.allowlist_apps # {} /\ app_key \notin rules.allowlist_apps
        THEN [envelope |-> None, metrics |-> record_drop(metrics, "allowlist")]
        ELSE IF rules.denylist_apps # {} /\ app_key \in rules.denylist_apps
        THEN IF rules.denylist_action = "strip"
             THEN [envelope |->
                      Some([envelope EXCEPT
                              !.payload = <<>>,
                              !.privacy.redaction =
                                  _dedupe(Append(@, "denylist_stripped"))]),
                   metrics |-> record_privacy_denied(metrics)]
             ELSE [envelope |-> None, metrics |-> record_privacy_denied(metrics)]
        ELSE Guarded(envelope, hash_window, hash_resource,
                     SanitizeItems(rules, url_mode, envelope.payload,
                                   DOMAIN envelope.payload,
                                   [redaction |-> redactions, map |-> <<>>]),
                     metrics)

(***************************************************************************)
(* priority.py                                                             *)
(***************************************************************************)
P0_EVENT_TYPES ==
    {"outlook.send_clicked", "excel.export_pdf", "excel.export_csv",
     "excel.save_as", "os.file_saved", "excel.refresh_pivot", "upload_done",
     "share_link_created"}

P1_EVENT_TYPES ==
    {"os.app_focus_block", "os.file_opened", "excel.workbook_opened",
     "outlook.compose_started", "outlook.attachment_added_meta"}

P2_EVENT_TYPES ==
    {"os.foreground_changed", "os.window_title_changed", "os.clipboard_meta"}

DEBOUNCE_EVENT_TYPES == {"os.foreground_changed", "os.window_title_changed"}

focus_event_types == {"os.foreground_changed"}

focus_block_event_type == "os.app_focus_block"

\* A ratio is a pair <<numerator, denominator>> with a positive denominator.
_queue_ratio(qsize, maxsize) ==
    IF maxsize <= 0 THEN <<0, 1>> ELSE <<qsize, maxsize>>

\* the default of PriorityProcessor.drop_p2_when_queue_over and of the
\* configuration: 0.8
drop_p2_when_queue_over == <<4, 5>>

\* a comparison that drops only above the threshold
QueueOver_strictly(qsize, maxsize, over) ==
    _queue_ratio(qsize, maxsize)[1] * over[2]
        > over[1] * _queue_ratio(qsize, maxsize)[2]

\* queue_ratio >= drop_p2_when_queue_over, for the ratio of a queue that
\* holds qsize items of maxsize
QueueOver(qsize, maxsize, over) ==
    _queue_ratio(qsize, maxsize)[1] * over[2]
        >= over[1] * _queue_ratio(qsize, maxsize)[2]

FocusState(envelope, ts) == [envelope |-> envelope, epoch |-> ts]

\* __post_init__: the built-in types and the configured ones, lower-cased
TypeSet(built_in, configured) ==
    {PyLower(item) : item \in built_in} \cup {PyLower(item) : item \in configured}

\* a variant of _classify_priority that trusts a valid declared priority
_classify_priority_declared_first(event_type, current, p0_set, p1_set, p2_set) ==
    IF current \in VALID_PRIORITIES THEN current
    ELSE IF event_type \in p0_set THEN "P0"
    ELSE IF event_type \in p1_set THEN "P1"
    ELSE IF event_type \in p2_set THEN "P2"
    ELSE "P1"

_classify_priority(event_type, current, p0_set, p1_set, p2_set) ==
    IF event_type \in p0_set THEN "P0"
    ELSE IF event_type \in p1_set THEN "P1"
    ELSE IF event_type \in p2_set THEN "P2"
    ELSE IF current \in VALID_PRIORITIES THEN current
    ELSE "P1"

_to_epoch(ts_value) == parse_ts(ts_value)

DebounceKey(envelope, event_type) ==
    <<event_type, envelope.app, envelope.resource.id>>

\* The table lookup of a bug that reads a missing entry as epoch 0.
_should_debounce_default_zero(table, envelope, event_type, debounce) ==
    LET ts == _to_epoch(envelope.ts)
        key == DebounceKey(envelope, event_type)
    IN  IF ts = None THEN [drop |-> FALSE, last |-> table]
        ELSE [drop |-> (ts[1] - (IF key \in DOMAIN table THEN table[key] ELSE 0))
                          < debounce,
              last |-> [k \in DOMAIN table \cup {key} |->
                           IF k = key THEN ts[1] ELSE table[k]]]

\* _should_debounce: the decision (drop) and the updated table (last)
_should_debounce(table, envelope, event_type, debounce) ==
    LET ts == _to_epoch(envelope.ts)
        key == DebounceKey(envelope, event_type)
    IN  IF ts = None THEN [drop |-> FALSE, last |-> table]
        ELSE LET updated == [k \in DOMAIN table \cup {key} |->
                                IF k = key THEN ts[1] ELSE table[k]]
             IN  IF key \notin DOMAIN table
                 THEN [drop |-> FALSE, last |-> updated]
                 ELSE [drop |-> (ts[1] - table[key]) < debounce,
                       last |-> updated]

Max(a, b) == IF a >= b THEN a ELSE b

\* int(duration) for a non-negative duration of d ticks
IntSeconds(d) == d \div 2

\* _emit_focus_block: the list of emitted block envelopes (empty or one)
_emit_focus_block(focus, ts, debounce, block_id) ==
    IF focus = None THEN <<>>
    ELSE LET prev == focus[1]
         IN  IF prev.epoch = None THEN <<>>
             ELSE LET duration == Max(0, ts - prev.epoch[1])
                  IN  IF duration < debounce THEN <<>>
                      ELSE << [prev.envelope EXCEPT
                                 !.event_id = block_id,
                                 !.event_type = focus_block_event_type,
                                 !.priority =
                                     _classify_priority(focus_block_event_type, "P1",
                                                        P0_EVENT_TYPES,
                                                        P1_EVENT_TYPES,
                                                        P2_EVENT_TYPES),
                                 !.payload =
                                     [k \in DOMAIN prev.envelope.payload
                                            \cup {"duration_sec"} |->
                                        IF k = "duration_sec"
                                        THEN JInt(IntSeconds(duration))
                                        ELSE prev.envelope.payload[k]]] >>

\* a _handle_focus_event that builds the block from the new envelope
_handle_focus_event_block_of_new(focus, envelope, debounce, block_id) ==
    LET ts == _to_epoch(envelope.ts)
        emitted == IF focus # None /\ ts # None
                   THEN _emit_focus_block(Some(FocusState(envelope, focus[1].epoch)),
                                          ts[1], debounce, block_id)
                   ELSE <<>>
    IN  [out |-> emitted, focus |-> Some(FocusState(envelope, ts))]

\* a _handle_focus_event that keeps the state of an absorbed transition
_handle_focus_event_unless_absorbed(focus, envelope, debounce, block_id) ==
    LET ts == _to_epoch(envelope.ts)
        emitted == IF focus # None /\ ts # None
                   THEN _emit_focus_block(focus, ts[1], debounce, block_id)
                   ELSE <<>>
    IN  [out |-> emitted,
         focus |-> IF focus # None /\ emitted = <<>> THEN focus
                   ELSE Some(FocusState(envelope, ts))]

\* _handle_focus_event: the emitted blocks (out) and the new state (focus)
_handle_focus_event(focus, envelope, debounce, block_id) ==
    LET ts == _to_epoch(envelope.ts)
        emitted == IF focus # None /\ ts # None
                   THEN _emit_focus_block(focus, ts[1], debounce, block_id)
                   ELSE <<>>
    IN  [out |-> emitted, focus |-> Some(FocusState(envelope, ts))]

\* a process that tests the queue pressure after the focus handler and the
\* debounce table have seen the envelope
process_pressure_after_state(table, focus, debounce, envelope, qsize, maxsize, over, block_id) ==
    LET event_type == PyLower(envelope.event_type)
        classified == [envelope EXCEPT
                         !.priority =
                             _classify_priority(event_type, envelope.priority,
                                                P0_EVENT_TYPES, P1_EVENT_TYPES,
                                                P2_EVENT_TYPES)]
        pressed == classified.priority = "P2" /\ QueueOver(qsize, maxsize, over)
    IN  IF event_type \in focus_event_types
        THEN LET h == _handle_focus_event(focus, classified, debounce, block_id)
             IN  [drop |-> IF pressed THEN "queue_overflow" ELSE "",
                  last |-> table, out |-> IF pressed THEN <<>> ELSE h.out,
                  focus |-> h.focus]
        ELSE IF event_type \in DEBOUNCE_EVENT_TYPES
        THEN LET d == _should_debounce(table, classified, event_type, debounce)
             IN  IF pressed
                 THEN [drop |-> "queue_overflow", last |-> d.last, out |-> <<>>,
                       focus |-> focus]
                 ELSE IF d.drop
                 THEN [drop |-> "debounce", last |-> d.last, out |-> <<>>,
                       focus |-> focus]
                 ELSE [drop |-> "", last |-> d.last, out |-> <<classified>>,
                       focus |-> focus]
        ELSE IF pressed
        THEN [drop |-> "queue_overflow", last |-> table, out |-> <<>>,
              focus |-> focus]
        ELSE [drop |-> "", last |-> table, out |-> <<classified>>, focus |-> focus]

\* PriorityProcessor.process for one envelope at queue occupancy qsize/maxsize
\* and a processor whose drop_p2_when_queue_over is the ratio over: the drop
\* reason, the updated table, the returned list, the new focus state.
\* The processor has no configured event types: its sets are the built-in ones.
process(table, focus, debounce, envelope, qsize, maxsize, over, block_id) ==
    LET event_type == PyLower(envelope.event_type)
        classified == [envelope EXCEPT
                         !.priority =
                             _classify_priority(event_type, envelope.priority,
                                                P0_EVENT_TYPES, P1_EVENT_TYPES,
                                                P2_EVENT_TYPES)]
    IN  IF classified.priority = "P2" /\ QueueOver(qsize, maxsize, over)
        THEN [drop |-> "queue_overflow", last |-> table, out |-> <<>>,
              focus |-> focus]
        ELSE IF event_type \in focus_event_types
        THEN LET h == _handle_focus_event(focus, classified, debounce, block_id)
             IN  [drop |-> "", last |-> table, out |-> h.out, focus |-> h.focus]
        ELSE IF event_type \in DEBOUNCE_EVENT_TYPES
        THEN LET d == _should_debounce(table, classified, event_type, debounce)
             IN  IF d.drop
                 THEN [drop |-> "debounce", last |-> d.last, out |-> <<>>,
                       focus |-> focus]
                 ELSE [drop |-> "", last |-> d.last, out |-> <<classified>>,
                       focus |-> focus]
        ELSE [drop |-> "", last |-> table, out |-> <<classified>>, focus |-> focus]

(***************************************************************************)
(* store.py.  The connection runs the INSERTs of a batch in one            *)
(* transaction and commits it; nothing rolls a transaction back, so the    *)
(* rows of the statements that ran before a failing one stay in the open   *)
(* transaction and are committed by the next commit.                       *)
(***************************************************************************)
\* what executemany and commit do in one attempt: outcome "ok"; "locked", an
\* sqlite3.OperationalError "database is locked" raised by the first INSERT;
\* or "error", another exception raised by the INSERT of row number row
StoreOutcome(outcome, row) == [outcome |-> outcome, row |-> row]

\* the row of the batch whose INSERT raised
FailedAt(batch, o) == IF o.row < Len(batch) THEN o.row ELSE Len(batch)

\* the table and the open transaction after one attempt
Executed(rows, uncommitted, batch, o) ==
    IF o.outcome = "ok"
    THEN [events |-> rows \o uncommitted \o batch, pending |-> <<>>]
    ELSE IF o.outcome = "locked"
    THEN [events |-> rows, pending |-> uncommitted]
    ELSE [events |-> rows,
          pending |-> uncommitted \o SubSeq(batch, 1, FailedAt(batch, o) - 1)]

\* attempts = max(0, int(retry_attempts))
Attempts(retry_attempts) == Max(0, retry_attempts)

\* a variant of SleepFor without the doubling
SleepFor_constant(retry_backoff_ms, attempt) == Max(0, retry_backoff_ms)

\* sleep_for after the failed attempt, in milliseconds
SleepFor(retry_backoff_ms, attempt) == Max(0, retry_backoff_ms) * 2 ^ attempt

\* the except clause goes on to the next attempt
Retries(o, attempt, attempts) == o.outcome = "locked" /\ attempt < attempts

\* one pass of the loop of insert_events: the attempt, its outcome and the
\* sleep that follows it, None when the call returns or raises
Attempted(attempt, o, retry_attempts, retry_backoff_ms) ==
    [outcome |-> o.outcome, row |-> o.row, attempt |-> attempt,
     sleep |-> IF Retries(o, attempt, Attempts(retry_attempts))
               THEN Some(SleepFor(retry_backoff_ms, attempt)) ELSE None]

\* SQLiteStore.insert_events whose last attempt had the outcome o: the
\* attempts before it reported lock contention and left the store as it was
insert_events(rows, uncommitted, batch, o) ==
    IF batch = <<>> THEN [events |-> rows, pending |-> uncommitted]
    ELSE Executed(rows, uncommitted, batch, o)

(***************************************************************************)
(* bus.py                                                                  *)
(***************************************************************************)
\* an enqueue that admits one item more than maxsize
enqueue_one_over(queue, maxsize, event) ==
    IF maxsize > 0 /\ Len(queue) > maxsize
    THEN [ok |-> FALSE, queue |-> queue]
    ELSE [ok |-> TRUE, queue |-> Append(queue, event)]

\* EventBus.enqueue: the value returned (ok) and the queue after put_nowait;
\* a queue of maxsize <= 0 is unbounded
enqueue(queue, maxsize, event) ==
    IF maxsize > 0 /\ Len(queue) >= maxsize
    THEN [ok |-> FALSE, queue |-> queue]
    ELSE [ok |-> TRUE, queue |-> Append(queue, event)]

RECURSIVE RecordBatch(_, _)
\* the metrics loop of _flush_buffer over an inserted batch
RecordBatch(c, batch) ==
    IF batch = <<>> THEN c
    ELSE RecordBatch(record_store_insert_ok(record_priority(c, Head(batch).priority)),
                     Tail(batch))

\* the bus after the try block of _flush_buffer
Inserted(store, metrics, log) ==
    [events |-> store.events, pending |-> store.pending, handed |-> log,
     metrics |-> metrics, buffer |-> <<>>]

\* EventBus._flush_buffer: elapsed says whether flush_interval has passed
\* since the last flush, o is the outcome of store.insert_events, and log
\* lists the rows passed to store.insert_events before this call
_flush_buffer(buffer, rows, uncommitted, c, force, elapsed, o, log) ==
    IF buffer = <<>> \/ (~force /\ ~elapsed)
    THEN [events |-> rows, pending |-> uncommitted, handed |-> log,
          metrics |-> c, buffer |-> buffer]
    ELSE Inserted(insert_events(rows, uncommitted, buffer, o),
                  IF o.outcome = "ok" THEN RecordBatch(c, buffer)
                  ELSE record_store_insert_fail(c),
                  log \o buffer)

\* a variant of Appended that puts the output in front of the buffer
Appended_in_front(f, output, batch_size, o) ==
    IF Len(f.buffer) + 1 >= batch_size
    THEN _flush_buffer(<<output>> \o f.buffer, f.events, f.pending, f.metrics,
                       TRUE, FALSE, o, f.handed)
    ELSE [events |-> f.events, pending |-> f.pending, handed |-> f.handed,
          metrics |-> f.metrics, buffer |-> <<output>> \o f.buffer]

\* buffer.append(output) and the forced flush of a full batch
Appended(f, output, batch_size, o) ==
    IF Len(f.buffer) + 1 >= batch_size
    THEN _flush_buffer(Append(f.buffer, output), f.events, f.pending, f.metrics,
                       TRUE, FALSE, o, f.handed)
    ELSE [events |-> f.events, pending |-> f.pending, handed |-> f.handed,
          metrics |-> f.metrics, buffer |-> Append(f.buffer, output)]

RECURSIVE OutputLoop(_, _, _, _)
\* the loop of _run over the outputs of process
OutputLoop(f, outs, batch_size, o) ==
    IF outs = <<>> THEN f
    ELSE OutputLoop(Appended(f, Head(outs), batch_size, o), Tail(outs),
                    batch_size, o)

\* the closing _flush_buffer() of an iteration of _run
Closing(f, elapsed, o) ==
    _flush_buffer(f.buffer, f.events, f.pending, f.metrics, FALSE, elapsed, o,
                  f.handed)

(***************************************************************************)
(* main.py: IngestHandler                                                  *)
(***************************************************************************)
\* a request body that json.loads rejects
Garbage == [kind |-> "garbage"]

\* _normalize_payload: Some(list of events) or None
EventsOf(payload) ==
    IF payload.kind = "dict" THEN Some(<<payload>>)
    ELSE IF payload.kind = "list" THEN Some(payload.items)
    ELSE None

\* a variant of _check_token that accepts any header that is present
_check_token_any_header(token, header) == token = "" \/ header # None

_check_token(token, header) == token = "" \/ header = Some(token)

\* a variant of EnqueueLoop that gives up silently on a full queue
EnqueueLoop_silent(queue, maxsize, evs, queued) ==
    LET room == IF maxsize > 0 THEN Max(0, maxsize - Len(queue)) ELSE Len(evs)
        taken == IF Len(evs) <= room THEN Len(evs) ELSE room
    IN  [queued |-> Len(evs), ok |-> TRUE,
         queue |-> queue \o [i \in 1 .. taken |-> evs[i].map]]

RECURSIVE EnqueueLoop(_, _, _, _)
\* the enqueue loop of do_POST: the queue, the number queued, and whether
\* every event was queued (ok)
EnqueueLoop(queue, maxsize, evs, queued) ==
    IF evs = <<>> THEN [queued |-> queued, ok |-> TRUE, queue |-> queue]
    ELSE LET r == enqueue(queue, maxsize, Head(evs).map)
         IN  IF r.ok THEN EnqueueLoop(r.queue, maxsize, Tail(evs), queued + 1)
             ELSE [queued |-> queued, ok |-> FALSE, queue |-> queue]

\* IngestHandler.do_POST: the response, and the queue and metrics after it
do_POST(request, cfg, queue, c) ==
    LET evs == EventsOf(request.content[1])
        loop == EnqueueLoop(queue, cfg.max_size, evs[1], 0)
        received == inc(c, "ingest.received_total", Len(evs[1]))
        refuse(status, message, metrics) ==
            [response |-> [status |-> status, body |-> [error |-> message]],
             metrics |-> metrics, queue |-> queue]
    IN  IF request.path # "/events" THEN refuse(404, "not found", c)
        ELSE IF ~_check_token(cfg.token, request.header)
        THEN refuse(401, "unauthorized", c)
        ELSE IF request.content = None
        THEN refuse(411, "missing content-length", record_ingest_invalid(c))
        ELSE IF request.content[1] = Garbage
        THEN refuse(400, "invalid json", record_ingest_invalid(c))
        ELSE IF evs = None
        THEN refuse(400, "payload must be object or list", record_ingest_invalid(c))
        ELSE IF \E i \in DOMAIN evs[1] : evs[1][i].kind # "dict"
        THEN refuse(400, "event must be object", record_ingest_invalid(c))
        ELSE IF ~loop.ok
        THEN [response |->
                 [status |-> 429,
                  body |-> [error |-> "queue full", queued |-> loop.queued]],
              metrics |-> record_drop(received, "queue_full"),
              queue |-> loop.queue]
        ELSE [response |->
                 [status |-> 200,
                  body |-> [status |-> "queued", count |-> loop.queued]],
              metrics |-> inc(received, "ingest.ok_total", loop.queued),
              queue |-> loop.queue]

(***************************************************************************)
(* handoff.py: the store is the lists of session rows and routine rows,    *)
(* most recent first; of a row's columns only those that vary in length   *)
(* are kept.                                                               *)
(***************************************************************************)
Min(a, b) == IF a <= b THEN a ELSE b

HandoffPayload(payload, size_bytes) ==
    [payload |-> payload, size_bytes |-> size_bytes]

\* SELECT ... LIMIT ?: a negative limit is no limit
Limit(rows, limit) ==
    IF limit < 0 THEN rows ELSE SubSeq(rows, 1, Min(limit, Len(rows)))

\* items[:n]
Slice(items, n) ==
    IF n >= 0 THEN SubSeq(items, 1, Min(n, Len(items)))
    ELSE SubSeq(items, 1, Max(0, Len(items) + n))

\* the list of (sessions_limit, routines_limit, resources_limit)
profiles(recent_sessions, recent_routines, max_resources) ==
    << <<recent_sessions, recent_routines, max_resources>>,
       <<Min(2, recent_sessions), recent_routines, max_resources>>,
       <<1, Min(5, recent_routines), Min(5, max_resources)>>,
       <<1, Min(3, recent_routines), Min(3, max_resources)>>,
       <<1, 1, 1>> >>

_recent_sessions(store, limit, max_resources) ==
    [i \in DOMAIN Limit(store.sessions, limit) |->
        [session_id |-> store.sessions[i].session_id,
         resources |-> Slice(store.sessions[i].resources, max_resources)]]

_routine_candidates(store, limit, max_evidence) ==
    [i \in DOMAIN Limit(store.routines, limit) |->
        [pattern_id |-> store.routines[i].pattern_id,
         evidence_session_ids |->
             IF max_evidence > 0
             THEN Slice(store.routines[i].evidence_session_ids, max_evidence)
             ELSE store.routines[i].evidence_session_ids]]

_build_handoff_payload(store, sessions_limit, routines_limit, resources_limit, max_evidence) ==
    [recent_sessions |-> _recent_sessions(store, sessions_limit, resources_limit),
     routine_candidates |-> _routine_candidates(store, routines_limit, max_evidence)]

\* PATH_RE.search(value): a drive letter, ":" and two backslashes; /Users/;
\* /home/; or a backslash, any character and xlsx, docx or pptx
PathLike(s) ==
    \/ Find(s, "/Users/", 1) # 0
    \/ Find(s, "/home/", 1) # 0
    \/ \E i \in 1 .. Len(s) :
          \/ /\ Char(s, i) \in Letters
             /\ i + 3 <= Len(s)
             /\ SubSeq(s, i + 1, i + 3) = ":\\\\"
          \/ /\ Char(s, i) = "\\"
             /\ i + 5 <= Len(s)
             /\ SubSeq(s, i + 2, i + 5) \in {"xlsx", "docx", "pptx"}

WordChars == Letters \cup Digits \cup {"_"}

\* LONG_DIGITS_RE.search(value): a run of 12 or more digits between word
\* boundaries
LongDigits(s) ==
    \E i \in 1 .. Len(s) :
        /\ Char(s, i) \in Digits
        /\ i = 1 \/ Char(s, i - 1) \notin WordChars
        /\ RunEnd(s, i, Digits) - i + 1 >= 12
        /\ \/ RunEnd(s, i, Digits) = Len(s)
           \/ Char(s, RunEnd(s, i, Digits) + 1) \notin WordChars

_scrub_string(value) ==
    IF IsDigest(value) THEN value
    ELSE IF ContainsEmail(value) \/ PathLike(value) \/ LongDigits(value)
    THEN REDACTION_TOKEN
    ELSE value

ScrubList(items) == [i \in DOMAIN items |-> _scrub_string(items[i])]

\* _scrub_payload over the two lists of the payload
_scrub_payload(payload) ==
    [recent_sessions |->
        [i \in DOMAIN payload.recent_sessions |->
            [session_id |-> _scrub_string(payload.recent_sessions[i].session_id),
             resources |-> ScrubList(payload.recent_sessions[i].resources)]],
     routine_candidates |->
        [i \in DOMAIN payload.routine_candidates |->
            [pattern_id |-> _scrub_string(payload.routine_candidates[i].pattern_id),
             evidence_session_ids |->
                 ScrubList(payload.routine_candidates[i].evidence_session_ids)]]]

RECURSIVE SumOf(_)
SumOf(sizes) == IF sizes = <<>> THEN 0 ELSE Head(sizes) + SumOf(Tail(sizes))

\* the length of the compact JSON text of a list of strings
StringListSize(items) ==
    2 + SumOf([i \in DOMAIN items |-> Len(items[i]) + 2]) + Max(0, Len(items) - 1)

\* the length of the compact JSON text of a list of objects of these sizes
ObjectListSize(sizes) == 2 + SumOf(sizes) + Max(0, Len(sizes) - 1)

\* len(json.dumps(payload, separators=(",", ":"))) for the two lists
_payload_size(payload) ==
    ObjectListSize([i \in DOMAIN payload.recent_sessions |->
                       4 + Len(payload.recent_sessions[i].session_id)
                         + StringListSize(payload.recent_sessions[i].resources)])
      + ObjectListSize([i \in DOMAIN payload.routine_candidates |->
                           4 + Len(payload.routine_candidates[i].pattern_id)
                             + StringListSize(
                                   payload.routine_candidates[i].evidence_session_ids)])

\* a guard that accepts every package
Fits_any_size(size_bytes, max_size_bytes) == size_bytes >= 0

\* size_bytes <= max_size_bytes
Fits(size_bytes, max_size_bytes) == size_bytes <= max_size_bytes

\* the package one pass of the loop of build_handoff_with_size_guard builds
\* for profile
Sized(payload) == HandoffPayload(payload, _payload_size(payload))

BuildProfile(store, profile, max_evidence) ==
    Sized(_scrub_payload(_build_handoff_payload(store, profile[1], profile[2],
                                                profile[3], max_evidence)))

(***************************************************************************)
(* retention.py and the deletes of store.py.  An instant is a number of    *)
(* ticks (half seconds) since 2026-11-01T00:00:00Z; a timestamp column     *)
(* holds the text it was given, and SQLite compares texts byte by byte.    *)
(***************************************************************************)
TicksPerSecond == 2

TicksPerMinute == 60 * TicksPerSecond

TicksPerHour == 60 * TicksPerMinute

TicksPerDay == 24 * TicksPerHour

Two(n) == IF n < 10 THEN "0" \o ToString(n) ELSE ToString(n)

\* datetime.isoformat() of a UTC instant, with "+00:00" replaced by "Z":
\* the fraction is printed only when it is not zero
_format_ts(instant) ==
    "2026-11-" \o Two((instant \div TicksPerDay) + 1) \o "T"
        \o Two((instant % TicksPerDay) \div TicksPerHour) \o ":"
        \o Two((instant % TicksPerHour) \div TicksPerMinute) \o ":"
        \o Two((instant % TicksPerMinute) \div TicksPerSecond)
        \o (IF instant % TicksPerSecond = 1 THEN ".500000" ELSE "") \o "Z"

\* the UTC offset, in hours, that the end of an ISO-8601 text denotes; a text
\* without one is read as UTC
ZoneHours(zone) ==
    IF zone \in {"", "Z"} THEN 0
    ELSE (IF Char(zone, 1) = "-" THEN 0 - 1 ELSE 1) * ParseNat(SubSeq(zone, 2, 3))

\* parse_ts of an ISO-8601 text of November 2026: the instant it denotes
InstantOf(text) ==
    (ParseNat(SubSeq(text, 9, 10)) - 1) * TicksPerDay
        + ParseNat(SubSeq(text, 12, 13)) * TicksPerHour
        + ParseNat(SubSeq(text, 15, 16)) * TicksPerMinute
        + ParseNat(SubSeq(text, 18, 19)) * TicksPerSecond
        + (IF Len(text) > 20 /\ Char(text, 20) = "."
           THEN (IF Char(text, 21) = "5" THEN 1 ELSE 0)
                    - ZoneHours(Suffix(text, 27)) * TicksPerHour
           ELSE 0 - ZoneHours(Suffix(text, 20)) * TicksPerHour)

\* the byte of a character of a timestamp
Byte(c) ==
    CASE c = "+" -> 43
      [] c = "-" -> 45
      [] c = "." -> 46
      [] c \in Digits -> 48 + DigitValue(c)
      [] c = ":" -> 58
      [] c = "T" -> 84
      [] c = "Z" -> 90

\* a < b on TEXT values: memcmp, and a proper prefix is less
TextLess(a, b) ==
    \E i \in 1 .. Len(b) :
        /\ \A k \in 1 .. (i - 1) : k <= Len(a) /\ Char(a, k) = Char(b, k)
        /\ i > Len(a) \/ Byte(Char(a, i)) < Byte(Char(b, i))

RetentionRow(id, ts, status) == [ts |-> ts, id |-> id, status |-> status]

\* the rows that WHERE ts_column < cutoff_ts selects, by position
Expired(rows, cutoff_ts) == {i \in DOMAIN rows : TextLess(rows[i].ts, cutoff_ts)}

Without(rows, gone) ==
    SelectSeq([i \in DOMAIN rows |-> IF i \in gone THEN None ELSE Some(rows[i])],
              LAMBDA x : x # None)

Unwrapped(options) == [i \in DOMAIN options |-> options[i][1]]

\* the first n positions of a set of positions
FirstOf(positions, n) ==
    {i \in positions : Cardinality({j \in positions : j < i}) < n}

RECURSIVE DeleteLoop(_, _, _)
\* the batched DELETE ... LIMIT batch_size, repeated until a batch is short
DeleteLoop(rows, cutoff_ts, batch_size) ==
    IF Cardinality(Expired(rows, cutoff_ts)) < batch_size
    THEN Unwrapped(Without(rows, Expired(rows, cutoff_ts)))
    ELSE DeleteLoop(Unwrapped(Without(rows, FirstOf(Expired(rows, cutoff_ts),
                                                    batch_size))),
                    cutoff_ts, batch_size)

\* SQLiteStore._delete_by_cutoff on the rows of one table, ts being its
\* timestamp column
_delete_by_cutoff(rows, cutoff_ts, batch_size) ==
    IF batch_size > 0 THEN DeleteLoop(rows, cutoff_ts, batch_size)
    ELSE Unwrapped(Without(rows, Expired(rows, cutoff_ts)))

\* SQLiteStore.expire_pending_handoff
expire_pending_handoff(rows, cutoff_ts) ==
    [i \in DOMAIN rows |->
        IF rows[i].status = "pending" /\ TextLess(rows[i].ts, cutoff_ts)
        THEN [rows[i] EXCEPT !.status = "expired"] ELSE rows[i]]

RetentionTables ==
    {"events", "sessions", "routine_candidates", "handoff_queue",
     "daily_summaries", "pattern_summaries", "llm_inputs"}

\* cutoff = _format_ts(now - timedelta(days=days))
Cutoff(now, days) == _format_ts(now - days * TicksPerDay)

\* run_retention: the tables after it; policy.days gives the period of each
\* table.  checkpoint_wal and vacuum change no row.
run_retention(tables, policy, now) ==
    [t \in RetentionTables |->
        IF policy.days[t] <= 0 THEN tables[t]
        ELSE IF t = "handoff_queue"
        THEN _delete_by_cutoff(
                 expire_pending_handoff(tables[t], Cutoff(now, policy.days[t])),
                 Cutoff(now, policy.days[t]), policy.batch_size)
        ELSE _delete_by_cutoff(tables[t], Cutoff(now, policy.days[t]),
                               policy.batch_size)]

(***************************************************************************)
(* sessionizer.py.  A SessionEvent carries its ts as a number of ticks;    *)
(* only ts, event_type and priority are read by sessionize.                *)
(***************************************************************************)
IDLE_START_EVENT == "os.idle_start"

SessionEvent(ts, event_type, priority) ==
    [ts |-> ts, event_type |-> event_type, priority |-> priority]

UpperOf ==
    [c \in {Char(LowerAlphabet, i) : i \in 1 .. Len(LowerAlphabet)} |->
        Char(UpperAlphabet,
             CHOOSE i \in 1 .. Len(LowerAlphabet) : Char(LowerAlphabet, i) = c)]

RECURSIVE PyUpper(_)
\* str.upper
PyUpper(s) ==
    IF \A i \in 1 .. Len(s) : Char(s, i) \notin DOMAIN UpperOf THEN s
    ELSE (IF Char(s, 1) \in DOMAIN UpperOf THEN UpperOf[Char(s, 1)]
          ELSE Char(s, 1)) \o PyUpper(Suffix(s, 2))

\* the sessions list after _flush_session(current, sessions)
_flush_session(current, sessions) ==
    IF current # <<>> THEN Append(sessions, current) ELSE sessions

\* the locals of sessionize
SessionLocals(sessions, current, last_ts) ==
    [sessions |-> sessions, current |-> current, last_ts |-> last_ts]

\* the locals after current was flushed and emptied
Closed(sessions, current) ==
    SessionLocals(_flush_session(current, sessions), <<>>, None)

\* a variant of the gap test that closes only on a longer gap
GapReached_strictly_longer(last_ts, ts, gap_seconds) ==
    last_ts # None /\ gap_seconds > 0 /\ ts - last_ts[1] > 2 * gap_seconds

\* (event.ts - last_ts).total_seconds() >= gap_seconds, for ts in ticks
GapReached(last_ts, ts, gap_seconds) ==
    last_ts # None /\ gap_seconds > 0 /\ ts - last_ts[1] >= 2 * gap_seconds

\* the first block of the loop body: the gap since the last event
AfterGap(l, event, gap_seconds) ==
    IF GapReached(l.last_ts, event.ts, gap_seconds)
    THEN Closed(l.sessions, l.current)
    ELSE l

\* a variant of the P0 test that never closes a session
ClosesSession_never(event) == FALSE

\* (event.priority or "").upper() == "P0"
ClosesSession(event) == PyUpper(event.priority) = "P0"

\* the loop body after current.append(event)
AfterAppend(sessions, current, event) ==
    IF ClosesSession(event) THEN Closed(sessions, current)
    ELSE SessionLocals(sessions, current, Some(event.ts))

\* the loop body after the gap test
AfterEvent(l, event) ==
    IF PyLower(event.event_type) = IDLE_START_EVENT
    THEN Closed(l.sessions, l.current)
    ELSE AfterAppend(l.sessions, Append(l.current, event), event)

RECURSIVE SessionLoop(_, _, _)
\* the loop of sessionize over the events still to visit
SessionLoop(events_left, gap_seconds, l) ==
    IF events_left = <<>> THEN l
    ELSE SessionLoop(Tail(events_left), gap_seconds,
                     AfterEvent(AfterGap(l, Head(events_left), gap_seconds),
                                Head(events_left)))

\* a return that leaves out the session still open at the end of the input
Flushed_without_current(l) == l.sessions

\* the final _flush_session and the return
Flushed(l) == _flush_session(l.current, l.sessions)

sessionize(session_events, gap_seconds) ==
    Flushed(SessionLoop(session_events, gap_seconds,
                        SessionLocals(<<>>, <<>>, None)))

(***************************************************************************)
(* routine.py.  start_ts, end_ts and now are whole days; a confidence is   *)
(* carried in hundredths.  The patterns of a session are iterated in the   *)
(* order of a Python set, which is any order.                              *)
(***************************************************************************)
RoutineSession(session_id, start_ts, end_ts, key_events) ==
    [session_id |-> session_id, start_ts |-> start_ts, end_ts |-> end_ts,
     key_events |-> key_events]

RoutineCandidate(pattern_id, pattern_json, support, confidence, last_seen_ts, evidence_session_ids) ==
    [pattern_id |-> pattern_id, pattern_json |-> pattern_json,
     support |-> support, confidence |-> confidence,
     last_seen_ts |-> last_seen_ts,
     evidence_session_ids |-> evidence_session_ids]

_PatternStats(support, session_ids, last_seen, weekday_counts) ==
    [support |-> support, session_ids |-> session_ids, last_seen |-> last_seen,
     weekday_counts |-> weekday_counts]

_unique_ngrams(key_events, n_min, n_max) ==
    IF n_min <= 0 \/ n_max < n_min THEN {}
    ELSE UNION {{SubSeq(key_events, idx, idx + n - 1) :
                    idx \in 1 .. (Len(key_events) - n + 1)} :
                n \in n_min .. Min(n_max, Len(key_events))}

\* the patterns the loop over the sessions computes for session
PatternsOf(session, n_min, n_max) ==
    IF Len(session.key_events) < n_min THEN {}
    ELSE _unique_ngrams(session.key_events, n_min, n_max)

\* weekday_counts[weekday] += 1
Bump(weekday_counts, weekday) ==
    [w \in DOMAIN weekday_counts \cup {weekday} |->
        (IF w \in DOMAIN weekday_counts THEN weekday_counts[w] ELSE 0)
            + (IF w = weekday THEN 1 ELSE 0)]

\* a variant of Counted that counts a session id again
Counted_every_session(entry, session) ==
    _PatternStats(entry.support + 1, Append(entry.session_ids, session.session_id),
                  IF entry.last_seen = None \/ session.end_ts > entry.last_seen[1]
                  THEN Some(session.end_ts) ELSE entry.last_seen,
                  Bump(entry.weekday_counts, session.start_ts % 7))

\* the entry of a pattern after the loop body for a session that has it
Counted(entry, session) ==
    IF \E i \in DOMAIN entry.session_ids : entry.session_ids[i] = session.session_id
    THEN entry
    ELSE _PatternStats(entry.support + 1,
                       Append(entry.session_ids, session.session_id),
                       IF entry.last_seen = None
                              \/ session.end_ts > entry.last_seen[1]
                       THEN Some(session.end_ts) ELSE entry.last_seen,
                       Bump(entry.weekday_counts, session.start_ts % 7))

RECURSIVE StatsOf(_, _, _, _, _)
\* stats[pattern] after the loop over the sessions still to scan
StatsOf(sessions_left, pattern, n_min, n_max, entry) ==
    IF sessions_left = <<>> THEN entry
    ELSE StatsOf(Tail(sessions_left), pattern, n_min, n_max,
                 IF pattern \in PatternsOf(Head(sessions_left), n_min, n_max)
                 THEN Counted(entry, Head(sessions_left))
                 ELSE entry)

\* support * (1 + recency_bonus) * (1 + periodicity_bonus), in hundredths
_confidence(support, weekday_counts, last_seen, now) ==
    support
        * (10 + (IF now - last_seen <= 1 THEN 3
                 ELSE IF now - last_seen <= 7 THEN 1 ELSE 0))
        * (10 + (IF \E w \in DOMAIN weekday_counts : weekday_counts[w] >= 2
                 THEN 1 ELSE 0))

RECURSIVE JsonStrings(_)
\* the items of a JSON list of strings
JsonStrings(items) ==
    IF items = <<>> THEN ""
    ELSE "\"" \o Head(items) \o "\""
             \o (IF Len(items) > 1 THEN "," ELSE "") \o JsonStrings(Tail(items))

\* json.dumps({"type": "ngram", "events": list(pattern), "n": len(pattern)})
PatternJson(pattern) ==
    "{\"type\":\"ngram\",\"events\":[" \o JsonStrings(pattern) \o "],\"n\":"
        \o ToString(Len(pattern)) \o "}"

_hash_pattern(value) == "sha256(" \o value \o ")"

\* _format_ts of a day
DayString(day) == "day:" \o ToString(day)

\* a variant of the evidence slice that keeps the first ids
Evidence_first_ids(session_ids, max_evidence) ==
    IF max_evidence > 0
    THEN SubSeq(session_ids, 1, Min(max_evidence, Len(session_ids)))
    ELSE <<>>

\* entry.session_ids[-max_evidence:] if max_evidence > 0 else []
Evidence(session_ids, max_evidence) ==
    IF max_evidence > 0
    THEN SubSeq(session_ids, Max(1, Len(session_ids) - max_evidence + 1),
                Len(session_ids))
    ELSE <<>>

\* the candidate appended for a pattern with the entry of stats
CandidateOf(pattern, entry, now, max_evidence) ==
    RoutineCandidate(_hash_pattern(PatternJson(pattern)), PatternJson(pattern),
                     entry.support,
                     _confidence(entry.support, entry.weekday_counts,
                                 IF entry.last_seen = None THEN now
                                 ELSE entry.last_seen[1], now),
                     DayString(IF entry.last_seen = None THEN now
                               ELSE entry.last_seen[1]),
                     Evidence(entry.session_ids, max_evidence))

\* the first session that has the pattern: the one that inserts it into stats
FirstSession(sessions, pattern, n_min, n_max) ==
    CHOOSE i \in DOMAIN sessions :
        /\ pattern \in PatternsOf(sessions[i], n_min, n_max)
        /\ \A j \in 1 .. (i - 1) : pattern \notin PatternsOf(sessions[j], n_min, n_max)

\* the candidates appended for the patterns of stats with support >=
\* min_support, each with the session that inserted its pattern
Unsorted(sessions, n_min, n_max, min_support, max_evidence, now) ==
    {c \in {[first |-> FirstSession(sessions, pattern, n_min, n_max),
             value |-> CandidateOf(pattern,
                                   StatsOf(sessions, pattern, n_min, n_max,
                                           _PatternStats(0, <<>>, None, <<>>)),
                                   now, max_evidence)] :
                pattern \in UNION {PatternsOf(sessions[i], n_min, n_max) :
                                      i \in DOMAIN sessions}} :
        c.value.support >= min_support}

\* candidate a comes before b whatever the order of a set was: by the sort
\* key, or with an equal key, by the session that inserted it into stats
Before(a, b) ==
    \/ a.value.support > b.value.support
    \/ a.value.support = b.value.support /\ a.value.confidence > b.value.confidence
    \/ /\ a.value.support = b.value.support
       /\ a.value.confidence = b.value.confidence
       /\ a.first < b.first

RECURSIVE Sorted(_, _)
\* the first max_patterns candidates of the lists that
\* candidates.sort(key=(support, confidence), reverse=True) can leave, the
\* sort being stable
Sorted(candidates, max_patterns) ==
    IF candidates = {} \/ max_patterns = 0 THEN {<<>>}
    ELSE UNION {{<<c.value>> \o rest :
                    rest \in Sorted(candidates \ {c}, max_patterns - 1)} :
                c \in {x \in candidates :
                          \A y \in candidates : ~Before(y, x)}}

\* the lists build_routine_candidates can return
build_routine_candidates(sessions, n_min, n_max, min_support, max_patterns, max_evidence, now) ==
    IF max_patterns <= 0 THEN {<<>>}
    ELSE Sorted(Unsorted(sessions, n_min, n_max, min_support, max_evidence, now),
                max_patterns)

(***************************************************************************)
(* The PriorityProcessor as a state machine: envelopes as they leave the   *)
(* PrivacyGuard are handed to process one at a time, in any order of their *)
(* timestamps.                                                             *)
(***************************************************************************)
DebounceChoices == {0, 3, 4}

PriorityApps == {"A", "B"}

PriorityEventTypes == {"os.foreground_changed", "os.window_title_changed"}

GuardedEnvelope(event_type, app, ts) ==
    EventEnvelope(DEFAULT_SCHEMA_VERSION, "ev", ts, "os", app, event_type, "P2",
                  ResourceRef("window", hmac_sha256("w")), <<>>,
                  PrivacyMetadata("unknown", <<"resource_id_hashed">>),
                  None, None, <<>>)

\* the bus and the function harness, unused
BusIdle ==
    /\ config = None
    /\ _queue = <<>>
    /\ _buffer = <<>>
    /\ stopped = FALSE
    /\ events = <<>>
    /\ pending = <<>>
    /\ response = None
    /\ posted = <<>>
    /\ minted = 0
    /\ _lock = None
    /\ threads = <<>>
    /\ since_flush = 0

PureIdle == subject = None /\ image = <<>>

\* the PriorityProcessor and the call record, unused
PriorityIdle ==
    /\ debounce_seconds = 0
    /\ _last_event_ts = <<>>
    /\ _focus_state = None

\* nothing was appended to the buffer or passed to the store
LogIdle == appended = <<>> /\ handed = <<>>

GhostIdle == calls = 0 /\ returned = None /\ seen = {} /\ survived = {} /\ LogIdle

\* the record of a call: its envelope, what process returned, the time from
\* the focus state to the envelope, and the drop reason of the call before
NoCall == [envelope |-> None, drop |-> "", out |-> <<>>, interval |-> None,
           first |-> FALSE, pressure |-> FALSE, before |-> ""]

PriorityInit ==
    /\ debounce_seconds \in DebounceChoices
    /\ _last_event_ts = <<>>
    /\ _focus_state = None
    /\ counters = [n \in CounterNames |-> 0]
    /\ calls = 0
    /\ returned = NoCall
    /\ seen = {}
    /\ survived = {}
    /\ LogIdle
    /\ BusIdle
    /\ PureIdle

\* The survivors of one call, each with its ordinal (capped at 2) among the
\* survivors of the same key and timestamp.
Survivors(out, old) ==
    {[epoch |-> _to_epoch(out[i].ts),
      key |-> DebounceKey(out[i], out[i].event_type),
      ordinal |-> IF \E s \in old :
                        /\ s.key = DebounceKey(out[i], out[i].event_type)
                        /\ s.epoch = _to_epoch(out[i].ts)
                  THEN 2 ELSE 1] :
        i \in {j \in DOMAIN out : out[j].event_type \in DEBOUNCE_EVENT_TYPES}}

Process(envelope, qsize, maxsize) ==
    LET r == process(_last_event_ts, _focus_state, debounce_seconds, envelope,
                     qsize, maxsize, drop_p2_when_queue_over,
                     "uuid-" \o ToString(calls))
        key == DebounceKey(envelope, envelope.event_type)
        ts == _to_epoch(envelope.ts)
    IN  /\ calls < MaxCalls
        /\ calls' = calls + 1
        /\ _last_event_ts' = r.last
        /\ _focus_state' = r.focus
        /\ counters' = IF r.drop = "" THEN counters
                        ELSE record_drop(counters, r.drop)
        /\ returned' =
              [envelope |-> Some(envelope), drop |-> r.drop, out |-> r.out,
               interval |-> IF /\ _focus_state # None
                               /\ _focus_state[1].epoch # None
                               /\ ts # None
                            THEN Some(ts[1] - _focus_state[1].epoch[1])
                            ELSE None,
               first |-> key \notin seen,
               pressure |-> QueueOver(qsize, maxsize, drop_p2_when_queue_over),
               before |-> returned.drop]
        /\ seen' = seen \cup {key}
        /\ survived' = survived \cup Survivors(r.out, survived)
        /\ UNCHANGED <<debounce_seconds, logVars, busVars, pureVars>>

ProcessCall ==
    \E event_type \in PriorityEventTypes, app \in PriorityApps,
       ts \in {TsString(n) : n \in Ticks} \cup {GarbageTs},
       q \in {<<0, 5>>, <<4, 5>>} :
        Process(GuardedEnvelope(event_type, app, ts), q[1], q[2])

NextPriority == ProcessCall

SpecPriority == PriorityInit /\ [][NextPriority]_vars

(***************************************************************************)
(* Claims about the PriorityProcessor                                      *)
(***************************************************************************)
IsTitleCall(call, ts) ==
    /\ call.envelope # None
    /\ call.envelope[1].event_type = "os.window_title_changed"
    /\ call.envelope[1].app = "A"
    /\ call.envelope[1].ts = ts
    /\ ~call.pressure

\* C1: of two envelopes of a debounced, non-focus type with the same
\* (event_type, app, resource.id) key and parseable timestamps less than
\* debounce_seconds apart, at most one is returned by process.
C1_AtMostOneSurvivesWindow ==
    \A a, b \in survived :
        (/\ a # b
         /\ a.key = b.key
         /\ a.epoch # None
         /\ b.epoch # None
         /\ a.epoch[1] - b.epoch[1] < debounce_seconds
         /\ b.epoch[1] - a.epoch[1] < debounce_seconds) => FALSE

\* C7: every focus block emitted on a foreground transition has
\* duration_sec >= floor(debounce_seconds), and none is emitted for an
\* interval (new timestamp minus focus-state timestamp) shorter than
\* debounce_seconds, a negative interval included.
C7_BlockNeverShorterThanDebounce ==
    \A i \in DOMAIN returned.out :
        returned.out[i].event_type = focus_block_event_type =>
            /\ returned.out[i].payload["duration_sec"].num
                   >= IntSeconds(debounce_seconds)
            /\ returned.interval # None
            /\ returned.interval[1] >= debounce_seconds

\* C8: with debounce_seconds = 2, of two os.window_title_changed envelopes of
\* one key at T and T + 0.5 s processed in that order the first is returned
\* and the second is dropped and counted under drop.reason.debounce; and the
\* first envelope seen for a key is never debounced.
C8_FirstKeptSecondDebounced ==
    [][ /\ (/\ debounce_seconds = 4
            /\ calls = 1
            /\ IsTitleCall(returned, TsString(0))
            /\ IsTitleCall(returned', TsString(1)))
           => /\ Len(returned.out) = 1
              /\ returned.out[1].ts = TsString(0)
              /\ returned.out[1].event_type = "os.window_title_changed"
              /\ returned'.out = <<>>
              /\ returned'.drop = "debounce"
              /\ counters'["drop.reason.debounce"] = 1
        /\ returned'.first => returned'.drop # "debounce" ]_vars

C8_Witness ==
    /\ debounce_seconds = 4
    /\ calls = 2
    /\ IsTitleCall(returned, TsString(1))
    /\ returned.drop = "debounce"
    /\ counters["drop.reason.debounce"] = 1
    /\ survived = {[epoch |-> Some(0),
                    key |-> <<"os.window_title_changed", "A", hmac_sha256("w")>>,
                    ordinal |-> 1]}

\* the call was a foreground change that reached _handle_focus_event
HandledFocus(call) ==
    /\ call.envelope # None
    /\ PyLower(call.envelope[1].event_type) \in focus_event_types
    /\ call.drop # "queue_overflow"

\* the focus state is the envelope of the call with its parsed timestamp
FocusIs(focus, call) ==
    /\ focus # None
    /\ focus[1].envelope = call.envelope[1]
    /\ focus[1].epoch = _to_epoch(call.envelope[1].ts)

\* the blocks of the call are one block that starts at the focus state and
\* lasts until the envelope of the call (0 s when that one is older)
BlockSince(focus, call) ==
    /\ focus # None
    /\ focus[1].epoch # None
    /\ _to_epoch(call.envelope[1].ts) # None
    /\ Len(call.out) = 1
    /\ call.out[1].event_type = focus_block_event_type
    /\ call.out[1].app = focus[1].envelope.app
    /\ call.out[1].ts = focus[1].envelope.ts
    /\ call.out[1].payload["duration_sec"]
          = JInt(IntSeconds(Max(0, _to_epoch(call.envelope[1].ts)[1]
                                       - focus[1].epoch[1])))

C39_PressureDropLeavesStateUnchanged ==
    [][ /\ returned'.drop = "queue_overflow" =>
              /\ _focus_state' = _focus_state
              /\ _last_event_ts' = _last_event_ts
              /\ returned'.out = <<>>
        /\ (/\ returned.drop = "queue_overflow"
            /\ HandledFocus(returned')
            /\ returned'.out # <<>>)
              => BlockSince(_focus_state, returned') ]_vars

\* A has the focus from T; the change to B is dropped under pressure; the
\* change back to A at T + 1.5 s emits the block of A from T that lasts 1.5 s
C39_Witness ==
    /\ debounce_seconds = 3
    /\ calls = 3
    /\ returned.before = "queue_overflow"
    /\ seen = {<<"os.foreground_changed", "A", hmac_sha256("w")>>,
               <<"os.foreground_changed", "B", hmac_sha256("w")>>}
    /\ HandledFocus(returned)
    /\ returned.envelope[1].app = "A"
    /\ returned.envelope[1].ts = TsString(3)
    /\ returned.interval = Some(3)
    /\ Len(returned.out) = 1
    /\ returned.out[1].app = "A"
    /\ returned.out[1].ts = TsString(0)
    /\ returned.out[1].payload["duration_sec"] = JInt(1)
    /\ counters["drop.reason.queue_overflow"] = 1

(***************************************************************************)
(* normalize_event as a function under study: it is applied to an inbound  *)
(* object, and then to the fields of the envelope it returned.             *)
(***************************************************************************)
Absent == [kind |-> "absent"]

\* the inbound object raw with key k set to v, or removed when v is Absent
With(raw, k, v) ==
    IF v = Absent THEN [x \in DOMAIN raw \ {k} |-> raw[x]]
    ELSE [x \in DOMAIN raw \cup {k} |-> IF x = k THEN v ELSE raw[x]]

StrMap(pairs) == [k \in DOMAIN pairs |-> JStr(pairs[k])]

WellFormedEvent ==
    [k \in RequiredFields \cup {"pid", "window_id"} |->
        CASE k = "schema_version" -> JStr("1.0")
          [] k = "event_id" -> JStr(UuidString(0))
          [] k = "ts" -> JStr(TsString(0))
          [] k = "source" -> JStr("os")
          [] k = "app" -> JStr("A")
          [] k = "event_type" -> JStr("os.file_saved")
          [] k = "priority" -> JStr("P0")
          [] k = "resource" -> JDict(StrMap([type |-> "file", id |-> "f1"]))
          [] k = "payload" -> JDict(StrMap([path |-> "C:/a.txt"]))
          [] k = "privacy" ->
                JDict([x \in {"pii_level", "redaction"} |->
                          IF x = "pii_level" THEN JStr("low")
                          ELSE JList(<<JStr("m")>>)])
          [] k = "pid" -> JInt(3)
          [] k = "window_id" -> JStr("w1")]

\* the other values a field of an inbound object is given
FieldVariants(k) ==
    {Absent, JStr("")} \cup
    CASE k = "schema_version" -> {JStr("0.9"), JStr("2.0"), JStr("v1"), JInt(1)}
      [] k = "event_id" -> {JStr("e1"), JInt(7)}
      [] k = "ts" -> {JInt(1), JBool(TRUE), JList(<<>>)}
      [] k \in {"source", "app", "event_type"} -> {JInt(0)}
      [] k = "priority" -> {JStr("P9"), JInt(1), JList(<<JStr("P0")>>)}
      [] k = "resource" ->
            {JDict([x \in {"type", "id"} |-> IF x = "type" THEN JStr("") ELSE JInt(2)]),
             JDict([x \in {"type", "id"} |-> IF x = "type" THEN JBool(FALSE) ELSE JInt(2)])}
      [] k = "payload" -> {JNull, JList(<<JStr("x")>>)}
      [] k = "privacy" ->
            {JDict([x \in {"pii_level"} |-> JInt(2)]),
             JDict([x \in {"pii_level", "redaction"} |->
                       IF x = "pii_level" THEN JInt(0)
                       ELSE JList(<<JInt(1), JBool(TRUE)>>)]),
             JDict([x \in {"pii_level", "redaction"} |->
                       IF x = "pii_level" THEN JStr("low") ELSE JStr("m")])}
      [] k = "pid" -> {JStr("12"), JStr("x"), JBool(TRUE), JList(<<>>)}
      [] k = "window_id" -> {JInt(5), JBool(TRUE), JList(<<>>)}

\* the well-formed event with up to two of its fields changed
NormalizeInputs ==
    UNION {{With(With(WellFormedEvent, k1, v1), k2, v2) :
                v1 \in FieldVariants(k1), v2 \in FieldVariants(k2)} :
           k1 \in DOMAIN WellFormedEvent, k2 \in DOMAIN WellFormedEvent}

ValidationLevels == {"lenient", "strict", " Strict", "paranoid"}

FreshIds == {UuidString(1), UuidString(2)}

ClockReadings == {TsString(7), TsString(10)}

\* the fields of an envelope other than raw, as an inbound object
AsRaw(envelope) ==
    [k \in RequiredFields \cup {"pid", "window_id"} |->
        CASE k = "resource" ->
                JDict(StrMap([type |-> envelope.resource.type,
                              id |-> envelope.resource.id]))
          [] k = "payload" -> JDict(envelope.payload)
          [] k = "privacy" ->
                JDict([x \in {"pii_level", "redaction"} |->
                          IF x = "pii_level" THEN JStr(envelope.privacy.pii_level)
                          ELSE JList([i \in DOMAIN envelope.privacy.redaction |->
                                         JStr(envelope.privacy.redaction[i])])])
          [] k = "pid" ->
                IF envelope.pid = None THEN JNull ELSE JInt(envelope.pid[1])
          [] k = "window_id" ->
                IF envelope.window_id = None THEN JNull
                ELSE JStr(envelope.window_id[1])
          [] OTHER -> JStr(envelope[k])]

NormalizeInit ==
    /\ subject \in [raw : NormalizeInputs, level : ValidationLevels]
    /\ image = <<>>
    /\ counters = [n \in CounterNames |-> 0]
    /\ PriorityIdle
    /\ GhostIdle
    /\ BusIdle

\* normalize_event(x)
NormalizeFirst ==
    /\ image = <<>>
    /\ \E fresh \in FreshIds, now \in ClockReadings :
          image' = <<normalize_event(subject.raw, subject.level, fresh, now)>>
    /\ UNCHANGED <<priorityVars, counters, ghostVars, busVars, subject>>

\* normalize_event applied to the fields of the envelope just returned
NormalizeAgain ==
    /\ Len(image) = 1
    /\ image[1].error = ""
    /\ \E fresh \in FreshIds, now \in ClockReadings :
          image' = Append(image,
                          normalize_event(AsRaw(image[1].envelope[1]),
                                          subject.level, fresh, now))
    /\ UNCHANGED <<priorityVars, counters, ghostVars, busVars, subject>>

NextNormalize == NormalizeFirst \/ NormalizeAgain

SpecNormalize == NormalizeInit /\ [][NextNormalize]_vars

\* the envelope without its raw inbound object
Fields(envelope) == [envelope EXCEPT !.raw = <<>>]

\* C10: for every input normalize_event accepts, normalizing the fields of
\* the returned envelope again is accepted and yields the same
\* schema_version, event_id, ts, source, app, event_type, priority, resource,
\* payload, privacy, pid and window_id.
C10_NormalizeIdempotent ==
    Len(image) = 2 =>
        /\ image[2].error = ""
        /\ Fields(image[2].envelope[1]) = Fields(image[1].envelope[1])

\* an event without event_id and with a numeric ts (both are rewritten by
\* the first pass) has been normalized twice
C10_Witness ==
    /\ Len(image) = 2
    /\ subject.level = "lenient"
    /\ "event_id" \notin DOMAIN subject.raw
    /\ Get(subject.raw, "ts") = JInt(1)
    /\ image[1].envelope[1].event_id \in FreshIds
    /\ image[2].envelope[1].ts = TsString(2)

\* the schema_version of the input parses to a version above the supported
\* maximum
NewerVersion ==
    /\ Truthy(Get(subject.raw, "schema_version"))
    /\ _parse_version(PyStr(Get(subject.raw, "schema_version"))) # None
    /\ VersionLess(SUPPORTED_MAX_VERSION,
                   _parse_version(PyStr(Get(subject.raw, "schema_version")))[1])

\* C35: an input whose schema_version is newer than the supported maximum
\* is accepted only in lenient mode, strict mode rejects it with a
\* NormalizationError, and it is accepted only if every named required field
\* is present in the input.
C35_NewerVersionLenientOnly ==
    (Len(image) >= 1 /\ NewerVersion) =>
        /\ image[1].error = "" =>
              /\ PyLower(PyStrip(subject.level)) = "lenient"
              /\ RequiredFields \subseteq DOMAIN subject.raw
        /\ PyLower(PyStrip(subject.level)) = "strict" =>
              SubSeq(image[1].error, 1, 18) = "NormalizationError"

(***************************************************************************)
(* PrivacyGuard.apply as a function under study: it is applied to a        *)
(* normalized envelope, and then to the envelope it returned.              *)
(***************************************************************************)
\* the rules of tests/test_privacy.py, with the two list policies left open
GuardRules(allowlist_apps, denylist_action) ==
    PrivacyRules({"window_title"}, {"path", "file_path"},
                 [k \in {"window_title"} |-> 16],
                 [k \in {"allow_full_url", "keep_domain_only"} |->
                     k = "keep_domain_only"],
                 <<"email">>, {"body"}, allowlist_apps, {"blocked"},
                 denylist_action)

RuleChoices ==
    {GuardRules(allow, action) : allow \in {{}, {"a"}}, action \in {"drop", "strip"}}

PayloadMenu ==
    [body |-> JStr("hello"),
     path |-> JStr("/tmp/secret"),
     to |-> JStr("al@ex.com, Bo@X.org; ev@ex.com"),
     url |-> JStr("https://x.com/p?q=1"),
     window_title |-> JStr("email al@example.com"),
     note |-> JStr("cc bo@ex.com"),
     attendees |-> JList(<<JStr("da@ex.com")>>)]

\* values under the keys that name recipients: a list of addresses, a string
\* without one, a list without one, nothing, and a dict with a nested address
RecipientMenu ==
    [k \in {"recipients", "Cc", "bcc", "email", "emails"} |->
        CASE k = "recipients" ->
                JList(<<JStr("a@x.com"), JStr("b@x.com"), JStr("c@y.com")>>)
          [] k = "Cc" -> JStr("nobody")
          [] k = "bcc" -> JList(<<JStr("x"), JInt(3)>>)
          [] k = "email" -> JNull
          [] k = "emails" ->
                JDict([x \in {"count", "primary"} |->
                          IF x = "count" THEN JInt(4) ELSE JStr("A@Y.com")])]

MenuValue(k) ==
    IF k \in DOMAIN PayloadMenu THEN PayloadMenu[k] ELSE RecipientMenu[k]

\* the payloads with at most two keys of the menus
PayloadChoices ==
    {[k \in keys |-> MenuValue(k)] :
        keys \in {ks \in SUBSET (DOMAIN PayloadMenu \cup DOMAIN RecipientMenu) :
                     Cardinality(ks) <= 2}}

NormalizedEnvelope(app, resource_id, payload, window_id) ==
    EventEnvelope(DEFAULT_SCHEMA_VERSION, UuidString(0), TsString(0), "os", app,
                  "os.app_focus_block", "P1", ResourceRef("window", resource_id),
                  payload, PrivacyMetadata("unknown", <<>>), None, window_id,
                  <<>>)

PrivacyInputs ==
    {NormalizedEnvelope(app, resource_id, payload, window_id) :
        app \in {"A", "Blocked"}, resource_id \in {"unknown", "win-1"},
        payload \in PayloadChoices, window_id \in {None, Some("win-1")}}

PrivacyInit ==
    /\ subject \in [envelope : PrivacyInputs, rules : RuleChoices]
    /\ image = <<>>
    /\ counters = [n \in CounterNames |-> 0]
    /\ PriorityIdle
    /\ GhostIdle
    /\ BusIdle

\* apply(x)
ApplyFirst ==
    LET r == apply(subject.rules, "rules", subject.envelope, counters)
    IN  /\ image = <<>>
        /\ image' = <<r.envelope>>
        /\ counters' = r.metrics
        /\ UNCHANGED <<priorityVars, ghostVars, busVars, subject>>

\* apply applied to the envelope just returned
ApplyAgain ==
    /\ Len(image) = 1
    /\ image[1] # None
    /\ LET r == apply(subject.rules, "rules", image[1][1], counters)
       IN  /\ image' = Append(image, r.envelope)
           /\ counters' = r.metrics
    /\ UNCHANGED <<priorityVars, ghostVars, busVars, subject>>

NextPrivacy == ApplyFirst \/ ApplyAgain

SpecPrivacy == PrivacyInit /\ [][NextPrivacy]_vars

\* C9: for every envelope x that apply accepts, apply(apply(x)) is accepted
\* and has the window_id, resource, payload and deduplicated redaction tags
\* of apply(x).
C9_ApplyIdempotent ==
    Len(image) = 2 =>
        /\ image[2] # None
        /\ image[2][1].window_id = image[1][1].window_id
        /\ image[2][1].resource = image[1][1].resource
        /\ image[2][1].payload = image[1][1].payload
        /\ _dedupe(image[2][1].privacy.redaction)
               = _dedupe(image[1][1].privacy.redaction)

RECURSIVE Leaks(_)
\* the JSON value v holds an email address outside a digest
Leaks(v) ==
    CASE v.kind = "str" -> ~IsDigest(v.str) /\ ContainsEmail(v.str)
      [] v.kind = "list" -> \E i \in DOMAIN v.items : Leaks(v.items[i])
      [] v.kind = "dict" ->
            \E k \in DOMAIN v.map : ContainsEmail(k) \/ Leaks(v.map[k])
      [] OTHER -> FALSE

LeaksText(text) == ~IsDigest(text) /\ ContainsEmail(text)

\* {count: n}
CountOnly(n) == JDict([k \in {"count"} |-> JInt(n)])

\* {count: n, domain_stats: stats}
CountAndDomains(n, stats) ==
    JDict([k \in {"count", "domain_stats"} |->
              IF k = "count" THEN JInt(n)
              ELSE JDict([d \in DOMAIN stats |-> JInt(stats[d])])])

\* the summaries the recipient values of the menus are to have
ExpectedSummary ==
    [k \in {"recipients", "Cc", "bcc", "email", "emails", "to"} |->
        CASE k = "recipients" ->
                CountAndDomains(3, [d \in {"x.com", "y.com"} |->
                                       IF d = "x.com" THEN 2 ELSE 1])
          [] k = "Cc" -> CountOnly(1)
          [] k = "bcc" -> CountOnly(2)
          [] k = "email" -> CountOnly(0)
          [] k = "emails" -> CountAndDomains(1, [d \in {"y.com"} |-> 1])
          [] k = "to" ->
                CountAndDomains(3, [d \in {"ex.com", "x.org"} |->
                                       IF d = "ex.com" THEN 2 ELSE 1])]

\* the part of the address after its "@", lower-cased
DomainOf(address) == PyLower(Suffix(address, Find(address, "@", 1) + 1))

\* summary is {count, domain_stats?} for the addresses found in a value
SummaryOf(summary, addresses) ==
    /\ summary.kind = "dict"
    /\ "count" \in DOMAIN summary.map
    /\ DOMAIN summary.map \subseteq {"count", "domain_stats"}
    /\ ~Leaks(summary)
    /\ addresses # <<>> =>
          /\ summary.map["count"] = JInt(Len(addresses))
          /\ "domain_stats" \in DOMAIN summary.map
          /\ summary.map["domain_stats"].kind = "dict"
          /\ DOMAIN summary.map["domain_stats"].map
                 = {DomainOf(addresses[i]) : i \in DOMAIN addresses}
          /\ \A d \in DOMAIN summary.map["domain_stats"].map :
                summary.map["domain_stats"].map[d]
                    = JInt(Cardinality({i \in DOMAIN addresses :
                                           DomainOf(addresses[i]) = d}))
    /\ addresses = <<>> => "domain_stats" \notin DOMAIN summary.map

\* apply kept the payload of the envelope: the app is not on the denylist
PayloadKept ==
    /\ image # <<>>
    /\ image[1] # None
    /\ PyLower(subject.envelope.app) \notin subject.rules.denylist_apps

MaxSessions == 3

Session(resources) == [session_id |-> "s1", resources |-> resources]

SessionChoices ==
    {Session(<<>>), Session(<<"a.txt", "/home/u/b.xlsx">>),
     Session(<<"me@x.io", "a.txt", "a.txt">>)}

Routine == [pattern_id |-> "p1", evidence_session_ids |-> <<"s1", "s2">>]

RoutineChoices ==
    {<<>>, <<Routine, Routine>>,
     <<Routine, Routine, Routine, Routine, Routine, Routine>>}

StoreChoices ==
    [sessions : {<<>>} \cup {<<a>> : a \in SessionChoices}
                       \cup {<<a, b>> : a, b \in SessionChoices},
     routines : RoutineChoices]

SizeChoices == {10, 30, 60, 1000}

HandoffInit ==
    /\ subject \in [store : StoreChoices, recent_sessions : {0, 3},
                    recent_routines : {1, 10}, max_resources : {1, 10},
                    max_evidence : {1}, max_size_bytes : SizeChoices]
    /\ image = <<>>
    /\ counters = [n \in CounterNames |-> 0]
    /\ PriorityIdle
    /\ GhostIdle
    /\ BusIdle

HandoffProfiles ==
    profiles(subject.recent_sessions, subject.recent_routines,
             subject.max_resources)

\* build_handoff_with_size_guard has returned the last package built
Returned ==
    /\ image # <<>>
    /\ \/ Fits(image[Len(image)].size_bytes, subject.max_size_bytes)
       \/ Len(image) = Len(HandoffProfiles)

\* one pass of the loop of build_handoff_with_size_guard
TryProfile ==
    /\ ~Returned
    /\ image' = Append(image,
                       BuildProfile(subject.store,
                                    HandoffProfiles[Len(image) + 1],
                                    subject.max_evidence))
    /\ UNCHANGED <<priorityVars, counters, ghostVars, busVars, subject>>

\* the sessionizer stores a session while the package is being built
SessionStored ==
    /\ ~Returned
    /\ Len(subject.store.sessions) < MaxSessions
    /\ \E a \in SessionChoices :
          subject' = [subject EXCEPT !.store.sessions = <<a>> \o @]
    /\ UNCHANGED <<priorityVars, counters, ghostVars, busVars, image>>

NextHandoff == TryProfile \/ SessionStored

SpecHandoff == HandoffInit /\ [][NextHandoff]_vars

\* C6: the profiles are tried in order and none after the return; the
\* returned package is the first built one whose size is <= max_size_bytes,
\* and it is larger than max_size_bytes only when every profile was tried,
\* and then it is the output of the last profile, (1, 1, 1).
C6_FirstFittingOrLastProfile ==
    [][ /\ image' # image =>
              /\ ~Returned
              /\ image' = Append(image,
                                 BuildProfile(subject.store,
                                              HandoffProfiles[Len(image) + 1],
                                              subject.max_evidence))
        /\ Returned' =>
              /\ \A j \in 1 .. (Len(image') - 1) :
                    image'[j].size_bytes > subject.max_size_bytes
              /\ image'[Len(image')].size_bytes
                     = _payload_size(image'[Len(image')].payload)
              /\ \/ image'[Len(image')].size_bytes <= subject.max_size_bytes
                 \/ /\ Len(image') = 5
                    /\ HandoffProfiles[Len(image')] = <<1, 1, 1>> ]_vars

\* the first two profiles were too large and the third fits
C6_Witness ==
    /\ Len(image) = 3
    /\ image[1].size_bytes > subject.max_size_bytes
    /\ image[2].size_bytes > subject.max_size_bytes
    /\ image[3].size_bytes <= subject.max_size_bytes
    /\ Returned

\* the number of recent_sessions of the package that profile number i builds
\* from the store as it is
SessionsBuilt(i) ==
    Len(_recent_sessions(subject.store, HandoffProfiles[i][1],
                         HandoffProfiles[i][3]))

\* C27: for every configured (recent_sessions, recent_routines,
\* max_resources) no limit grows from one profile to the next, so the number
\* of recent_sessions built never grows; the defaults give (3,10,10),
\* (2,10,10), (1,5,5), (1,3,3), (1,1,1).
C27_ProfilesNeverGrow ==
    /\ \A i \in 1 .. Len(HandoffProfiles) - 1 :
          /\ \A k \in 1 .. 3 : HandoffProfiles[i + 1][k] <= HandoffProfiles[i][k]
          /\ SessionsBuilt(i + 1) <= SessionsBuilt(i)
    /\ (subject.recent_sessions = 3 /\ subject.recent_routines = 10
            /\ subject.max_resources = 10) =>
          HandoffProfiles =
              << <<3, 10, 10>>, <<2, 10, 10>>, <<1, 5, 5>>, <<1, 3, 3>>, <<1, 1, 1>> >>

(***************************************************************************)
(* The collector as a state machine: HTTP requests arrive at the           *)
(* IngestHandler, the EventBus worker takes one queued object at a time    *)
(* through normalize_event, PrivacyGuard.apply and                         *)
(* PriorityProcessor.process into the buffer and the store, and stop       *)
(* shuts the bus down.                                                     *)
(***************************************************************************)
MaxPosts == 3

Obj(pairs, extra) ==
    JDict([k \in DOMAIN pairs \cup DOMAIN extra |->
              IF k \in DOMAIN pairs THEN JStr(pairs[k]) ELSE extra[k]])

\* os.foreground_changed of app A with window_id w1 at T
FgA ==
    Obj([ts |-> TsString(0), app |-> "A", event_type |-> "os.foreground_changed",
         window_id |-> "w1"], <<>>)

\* FgA as the window sensor sends it, with the window as its resource
FgAWindow ==
    Obj([ts |-> TsString(0), app |-> "A", event_type |-> "os.foreground_changed",
         window_id |-> "w1"],
        [k \in {"resource"} |-> JDict(StrMap([type |-> "window", id |-> "w1"]))])

\* os.foreground_changed of app B with window_id w2 at T + 3 s
FgB ==
    Obj([ts |-> TsString(6), app |-> "B", event_type |-> "os.foreground_changed",
         window_id |-> "w2"], <<>>)

\* an event of a denylisted app, as the window sensor fills it in
FromBlocked ==
    Obj([ts |-> TsString(0), app |-> "Blocked",
         event_type |-> "os.window_title_changed", window_id |-> "w3"],
        [k \in {"resource", "payload"} |->
            IF k = "resource" THEN JDict(StrMap([type |-> "window", id |-> "w3"]))
            ELSE JDict(StrMap([window_title |-> "inbox"]))])

\* a mail event with addresses under several payload keys
Compose ==
    Obj([ts |-> TsString(0), app |-> "A",
         event_type |-> "outlook.compose_started"],
        [k \in {"payload"} |->
            JDict([x \in {"to", "note", "window_title", "attendees"} |->
                      PayloadMenu[x]])])

\* an object that lacks every field
Bare == JDict(<<>>)

\* a replayed event that names itself and dates itself freely
Replayed ==
    Obj([event_id |-> "e1", ts |-> GarbageTs, app |-> "A",
         event_type |-> "os.file_saved"], <<>>)

\* an object whose fields have the wrong types
Odd ==
    JDict([k \in {"source", "app", "event_type", "resource", "payload"} |->
              CASE k = "resource" ->
                      JDict([x \in {"type", "id"} |->
                                IF x = "type" THEN JStr("") ELSE JInt(2)])
                [] k = "payload" -> JList(<<JStr("x")>>)
                [] OTHER -> JInt(0)])

InboundEvents ==
    {FgA, FgAWindow, FgB, FromBlocked, Compose, Bare, Replayed, Odd}

Request(path, header, content) ==
    [path |-> path, header |-> header, content |-> content]

Requests ==
    {Request("/events", Some("secret"), Some(e)) : e \in InboundEvents}
        \cup {Request("/events", Some("secret"), Some(JList(<<FgA, FgB>>))),
              Request("/events", Some("secret"), Some(Garbage)),
              Request("/events", None, Some(FgA))}

Config(max_size, validation_level, token, rules, insert_batch_size) ==
    [max_size |-> max_size, validation_level |-> validation_level,
     token |-> token, rules |-> rules, insert_batch_size |-> insert_batch_size]

ConfigChoices ==
    {Config(2, "lenient", "", GuardRules({}, "strip"), 2),
     Config(1, "lenient", "", GuardRules({}, "drop"), 2),
     Config(0, "lenient", "secret", GuardRules({}, "strip"), 2),
     Config(2, "strict", "secret", GuardRules({}, "drop"), 2),
     Config(2, "lenient", "", GuardRules({"a", "b"}, "strip"), 2)}

PipelineDebounce == {4}

\* time.time() at stop, in ticks
StopClock == {7, 10}

PipelineInit ==
    /\ config \in ConfigChoices
    /\ debounce_seconds \in PipelineDebounce
    /\ _last_event_ts = <<>>
    /\ _focus_state = None
    /\ counters = [n \in CounterNames |-> 0]
    /\ _queue = <<>>
    /\ _buffer = <<>>
    /\ stopped = FALSE
    /\ events = <<>>
    /\ pending = <<>>
    /\ response = None
    /\ posted = <<>>
    /\ minted = 0
    /\ _lock = None
    /\ threads = <<>>
    /\ since_flush = 0
    /\ GhostIdle
    /\ PureIdle

\* the number of requests served so far
Served == IF response = None THEN 0 ELSE response.ordinal

\* the collector after do_POST returned r
Answered(r) ==
    /\ response' = [ordinal |-> Served + 1,
                    status |-> r.response.status, body |-> r.response.body]
    /\ _queue' = r.queue
    /\ posted' = posted \o SubSeq(r.queue, Len(_queue) + 1, Len(r.queue))
    /\ counters' = r.metrics

\* one HTTP POST, served by IngestHandler.do_POST
Post(request) ==
    /\ ~stopped
    /\ Served < MaxPosts
    /\ Answered(do_POST(request, config, _queue, counters))
    /\ UNCHANGED <<priorityVars, ghostVars, pureVars, threadVars, config,
                   _buffer, stopped, events, pending, minted>>

Posts == \E request \in Requests : Post(request)

\* what one iteration of _run leaves behind before it appends and flushes:
\* passed says whether the item reached the loop over the outputs
Handled(last, focus, out, metrics, fresh, passed) ==
    [minted |-> fresh, last |-> last, out |-> out, focus |-> focus,
     metrics |-> metrics, passed |-> passed]

Processed(r, metrics, fresh) ==
    Handled(r.last, r.focus, r.out,
            IF r.drop = "" THEN metrics ELSE record_drop(metrics, r.drop),
            fresh + Cardinality({i \in DOMAIN r.out :
                                    r.out[i].event_id = UuidString(fresh)}),
            TRUE)

GuardedItem(g, fresh) ==
    IF g.envelope = None
    THEN Handled(_last_event_ts, _focus_state, <<>>, g.metrics, fresh, FALSE)
    ELSE Processed(process(_last_event_ts, _focus_state, debounce_seconds,
                           g.envelope[1], Len(_queue) - 1, config.max_size,
                           drop_p2_when_queue_over, UuidString(fresh)),
                   g.metrics, fresh)

NormalizedItem(item, n) ==
    IF n.error # ""
    THEN Handled(_last_event_ts, _focus_state, <<>>,
                 IF SubSeq(n.error, 1, 18) = "NormalizationError"
                 THEN record_ingest_invalid(counters)
                 ELSE record_store_insert_fail(counters),
                 minted, FALSE)
    ELSE GuardedItem(apply(config.rules, "rules", n.envelope[1], counters),
                     IF Truthy(Get(item, "event_id")) THEN minted ELSE minted + 1)

\* the try block of EventBus._run for item, up to the loop over the outputs
_run(item, now) ==
    NormalizedItem(item, normalize_event(item, config.validation_level,
                                         UuidString(minted), TsString(now)))

\* the number of items the worker has got from the queue
Taken == Len(posted) - Len(_queue)

\* outs as entries of the log of appends, made while item number n is handled
Logged(outs, n) == [i \in DOMAIN outs |-> [row |-> outs[i], item |-> n]]

\* the bus after the iteration that handled h and left the buffer as in f
Settle(h, f) ==
    /\ appended' = appended \o Logged(h.out, Taken + 1)
    /\ handed' = f.handed
    /\ _last_event_ts' = h.last
    /\ _focus_state' = h.focus
    /\ minted' = h.minted
    /\ counters' = f.metrics
    /\ _buffer' = f.buffer
    /\ events' = f.events
    /\ pending' = f.pending

\* what store.insert_events does in one iteration: it succeeds, it gives up
\* on lock contention, or the INSERT of the second row of the batch fails
StoreOutcomes ==
    {StoreOutcome("ok", 0), StoreOutcome("locked", 1), StoreOutcome("error", 2)}

\* the bus before the appends and flushes of an iteration
Unflushed(metrics) ==
    [events |-> events, pending |-> pending, handed |-> handed,
     metrics |-> metrics, buffer |-> _buffer]

\* the appends and flushes of the iteration: elapsed says whether
\* flush_interval has passed, o what the store does
Finish(h) ==
    IF h.passed
    THEN \E elapsed \in BOOLEAN, o \in StoreOutcomes :
            Settle(h, Closing(OutputLoop(Unflushed(h.metrics), h.out,
                                         config.insert_batch_size, o),
                              elapsed, o))
    ELSE Settle(h, Unflushed(h.metrics))

\* one iteration of EventBus._run that gets an item from the queue, at clock
\* reading now
WorkerStep(now) ==
    /\ ~stopped
    /\ _queue # <<>>
    /\ _queue' = Tail(_queue)
    /\ Finish(_run(Head(_queue), now))
    /\ UNCHANGED <<debounce_seconds, callVars, pureVars, threadVars, config,
                   stopped, response, posted>>

\* the worker reads the clock only for an item without a usable ts
WorkerClock ==
    IF _queue # <<>> /\ Get(Head(_queue), "ts").kind = "str"
                    /\ Get(Head(_queue), "ts").str # ""
    THEN {CHOOSE now \in StopClock : TRUE} ELSE StopClock

WorkerSteps == \E now \in WorkerClock : WorkerStep(now)

\* the bus after a flush that left it as in f
Flush(f) ==
    /\ handed' = f.handed
    /\ counters' = f.metrics
    /\ _buffer' = f.buffer
    /\ events' = f.events
    /\ pending' = f.pending

\* one iteration of EventBus._run that finds the queue empty
WorkerIdle ==
    /\ ~stopped
    /\ _queue = <<>>
    /\ \E elapsed \in BOOLEAN, o \in StoreOutcomes :
          Flush(_flush_buffer(_buffer, events, pending, counters, FALSE,
                              elapsed, o, handed))
    /\ UNCHANGED <<priorityVars, callVars, appended, pureVars, threadVars,
                   config, _queue, stopped, response, posted, minted>>

\* PriorityProcessor.flush at clock reading now
flush(focus, now, debounce, block_id) ==
    IF focus = None THEN <<>> ELSE _emit_focus_block(focus, now, debounce, block_id)

\* the bus after stop flushed the buffer extended by last
Stopped(last, f) ==
    /\ stopped' = TRUE
    /\ minted' = minted + Len(last)
    /\ appended' = appended \o Logged(last, 0)
    /\ Flush(f)

StopWith(last, o) ==
    Stopped(last, _flush_buffer(_buffer \o last, events, pending, counters,
                                TRUE, TRUE, o, handed))

\* EventBus.stop
Stop ==
    /\ ~stopped
    /\ \E now \in StopClock, o \in StoreOutcomes :
          StopWith(flush(_focus_state, now, debounce_seconds, UuidString(minted)),
                   o)
    /\ UNCHANGED <<priorityVars, callVars, pureVars, threadVars, config,
                   _queue, response, posted>>

Next == Posts \/ WorkerSteps \/ WorkerIdle \/ Stop

Spec == PipelineInit /\ [][Next]_vars

(***************************************************************************)
(* Claims about the collector                                              *)
(***************************************************************************)
\* the stored os.app_focus_block events
Blocks == {i \in DOMAIN events : events[i].event_type = focus_block_event_type}

\* debounce_seconds = 2; first and then FgB were posted, nothing else was
\* queued, the worker has handled both and every batch was inserted
FocusScenario(first) ==
    /\ debounce_seconds = 4
    /\ config.validation_level = "lenient"
    /\ posted = <<first.map, FgB.map>>
    /\ _queue = <<>>
    /\ _buffer = <<>>
    /\ ~stopped
    /\ counters["store.insert_fail_total"] = 0

OneBlockForA(resource_id) ==
    /\ Cardinality(Blocks) = 1
    /\ \A i \in Blocks :
          /\ events[i].app = "A"
          /\ events[i].payload["duration_sec"] = JInt(3)
          /\ events[i].window_id = Some(hmac_sha256("w1"))
          /\ events[i].resource.id = resource_id

\* C2: with debounce_seconds = 2 and lenient validation, once
\* os.foreground_changed for app A with window_id w1 at T and
\* os.foreground_changed for app B with window_id w2 at T + 3 s have gone
\* through normalize, privacy and priority and the batches are inserted,
\* and before shutdown, exactly one os.app_focus_block is stored; its app is
\* A, its payload.duration_sec is 3 and its window_id is the HMAC of "w1";
\* its resource.id is "unknown" when the event for A carried no resource,
\* and the HMAC of "w1" when it carried resource.id "w1".
C2_OneBlockAfterThreeSeconds ==
    /\ FocusScenario(FgA) => OneBlockForA("unknown")
    /\ FocusScenario(FgAWindow) => OneBlockForA(hmac_sha256("w1"))

C2_Witness ==
    /\ FocusScenario(FgA)
    /\ Len(events) = 1
    /\ events[1].event_type = focus_block_event_type
    /\ events[1].resource.id = "unknown"
    /\ events[1].payload["duration_sec"] = JInt(3)

\* C2 as stated: in the scenario posted as in the specification (the events
\* carry window_id and no resource), the one stored block has resource.id =
\* HMAC("w1").
C2_BlockResourceIsHashedWindow ==
    FocusScenario(FgA) => OneBlockForA(hmac_sha256("w1"))

\* C3: every stored event has a window_id that is absent or an HMAC digest
\* and a resource.id that is "unknown" or an HMAC digest.
C3_StoredIdsAreHashed ==
    \A i \in DOMAIN events :
        /\ events[i].window_id = None \/ IsDigest(events[i].window_id[1])
        /\ events[i].resource.id = "unknown" \/ IsDigest(events[i].resource.id)

\* C4: no field of a stored event (payload, resource, window_id, privacy,
\* raw) holds a substring matching the email pattern outside a digest.
C4_NoStoredEmail ==
    \A i \in DOMAIN events :
        /\ ~Leaks(JDict(events[i].payload))
        /\ ~LeaksText(events[i].resource.type)
        /\ ~LeaksText(events[i].resource.id)
        /\ events[i].window_id # None => ~LeaksText(events[i].window_id[1])
        /\ ~LeaksText(events[i].privacy.pii_level)
        /\ \A j \in DOMAIN events[i].privacy.redaction :
              ~LeaksText(events[i].privacy.redaction[j])
        /\ ~Leaks(JDict(events[i].raw))

\* the step is a POST whose events reached the enqueue loop
IsPost(n) ==
    counters'["ingest.received_total"] = counters["ingest.received_total"] + n

Refused ==
    /\ response'.status = 429
    /\ response'.body.error = "queue full"
    /\ counters'["drop.reason.queue_full"] = counters["drop.reason.queue_full"] + 1

\* two single-event POSTs were queued and the worker has taken nothing
TwoQueued ==
    /\ config.max_size = 2
    /\ config.token = ""
    /\ Served = 2
    /\ Len(_queue) = 2
    /\ posted = _queue
    /\ counters["ingest.received_total"] = 2
    /\ counters["ingest.invalid_total"] = 0

\* C5: with queue.max_size > 0 the ingest queue never holds more than
\* max_size items; a POST that finds the queue full leaves it unchanged, is
\* answered 429 "queue full" and increments drop.reason.queue_full, and so is
\* every POST of which an event is not queued; with max_size = 2 and the
\* worker not running, the third of three single-event POSTs gets 429 and
\* drop.reason.queue_full is 1.
C5_QueueBoundedAndRefusing ==
    [][ /\ config.max_size > 0 => Len(_queue') <= config.max_size
        /\ \A n \in 1 .. 2 :
              /\ (IsPost(n) /\ config.max_size > 0
                            /\ Len(_queue) >= config.max_size)
                     => (_queue' = _queue /\ Refused)
              /\ (IsPost(n) /\ Len(_queue') < Len(_queue) + n) => Refused
        /\ (TwoQueued /\ IsPost(1))
              => (Refused /\ counters'["drop.reason.queue_full"] = 1) ]_vars

C5_Witness ==
    /\ config.max_size = 2
    /\ response # None
    /\ response.ordinal = 3
    /\ response.status = 429
    /\ Len(_queue) = 2
    /\ posted = _queue
    /\ events = <<>>
    /\ counters["ingest.received_total"] = 3
    /\ counters["drop.reason.queue_full"] = 1

\* C5 as stated: the ingest queue never holds more than queue.max_size items.
C5_QueueNeverOverMaxSize == Len(_queue) <= config.max_size

\* the payload p is a mapping from keys to JSON values
IsMapping(p) == \A k \in DOMAIN p : k \in STRING

\* C11: every stored event has non-empty event_id, ts, source, app,
\* event_type, resource.type and resource.id, and a payload that is a
\* mapping; this holds for every inbound object accepted in lenient mode,
\* the object that lacks all of these fields included, and for the
\* synthesized focus blocks.
C11_StoredFieldsNonEmpty ==
    \A i \in DOMAIN events :
        /\ events[i].event_id # ""
        /\ events[i].ts # ""
        /\ events[i].source # ""
        /\ events[i].app # ""
        /\ events[i].event_type # ""
        /\ events[i].resource.type # ""
        /\ events[i].resource.id # ""
        /\ IsMapping(events[i].payload)

\* the object without fields and a focus block are both stored
C11_Witness ==
    /\ config.validation_level = "lenient"
    /\ \E i \in DOMAIN events :
          /\ events[i].raw = Bare.map
          /\ events[i].source = "unknown"
          /\ events[i].resource.id = "unknown"
          /\ IsUuid(events[i].event_id)
    /\ Blocks # {}

\* C12: for every stored event e, e.event_id is a UUID and e.ts parses as a
\* timestamp: no envelope with another event_id or an unparseable ts reaches
\* the store.
C12_StoredIdIsUuidAndTsParses ==
    \A i \in DOMAIN events :
        /\ IsUuid(events[i].event_id)
        /\ parse_ts(events[i].ts) # None

\* the app of the envelope lenient normalization makes of item, lower-cased
AppKey(item) ==
    PyLower(_normalize_required_str(Get(item, "app"), "app", TRUE).value)

OffAllowlist(app_key) ==
    config.rules.allowlist_apps # {} /\ app_key \notin config.rules.allowlist_apps

OnDenylist(app_key) == app_key \in config.rules.denylist_apps

\* the step is an iteration of the worker that took an item from the queue
WorkerTook ==
    ~stopped /\ _queue # <<>> /\ _queue' = Tail(_queue)

\* the iteration left the priority processor, the buffer and the store alone
Skipped == UNCHANGED <<_last_event_ts, _focus_state, _buffer, pending, events>>

\* the buffered and the stored events
Kept ==
    {_buffer[i] : i \in DOMAIN _buffer} \cup {pending[i] : i \in DOMAIN pending}
        \cup {events[i] : i \in DOMAIN events}

\* C14: apply returns None, and the event is neither passed to the priority
\* processor nor stored, when the app (compared case-insensitively) is on the
\* denylist with action drop or when the allowlist is non-empty and the app
\* is not on it; with action strip the envelope of a denylisted app is kept
\* with an empty payload and the tag denylist_stripped in privacy.redaction.
C14_DeniedAppsDroppedOrStripped ==
    /\ [][ (WorkerTook /\ config.validation_level = "lenient") =>
              /\ OffAllowlist(AppKey(Head(_queue))) =>
                    /\ Skipped
                    /\ counters' = record_drop(counters, "allowlist")
              /\ (/\ ~OffAllowlist(AppKey(Head(_queue)))
                  /\ OnDenylist(AppKey(Head(_queue)))
                  /\ config.rules.denylist_action # "strip") =>
                    /\ Skipped
                    /\ counters' = record_privacy_denied(counters) ]_vars
    /\ [](\A e \in Kept :
             /\ ~OffAllowlist(PyLower(e.app))
             /\ OnDenylist(PyLower(e.app)) =>
                   /\ config.rules.denylist_action = "strip"
                   /\ e.payload = <<>>
                   /\ e.privacy.redaction[Len(e.privacy.redaction)]
                          = "denylist_stripped")

\* the event of the denylisted app was posted as "Blocked" and dropped by
\* the worker
C14_Witness ==
    /\ config.rules.denylist_action = "drop"
    /\ config.validation_level = "lenient"
    /\ posted = <<FromBlocked.map>>
    /\ _queue = <<>>
    /\ counters["privacy.denied_total"] = 1
    /\ counters["drop.reason.denylist"] = 1
    /\ Kept = {}
    /\ _last_event_ts = <<>>

(***************************************************************************)
(* sessionize as a function under study: it is applied to a chronological  *)
(* list of events.                                                         *)
(***************************************************************************)
MaxEvents == 3

\* event_type and priority of the events: plain, P0, P0 in lower case, idle
\* start, and idle start in another case with priority P0
EventKinds ==
    {<<"os.app_focus_block", "P1">>, <<"outlook.send_clicked", "P0">>,
     <<"os.file_saved", "p0">>, <<"os.idle_start", "P1">>,
     <<"OS.Idle_Start", "P0">>}

\* ticks between an event and the one before it
Deltas == {0, 3, 4}

GapChoices == {0, 2}

RECURSIVE Timeline(_, _)
\* the events of the kinds and deltas chosen, the first one at tick start
Timeline(choices, start) ==
    IF choices = <<>> THEN <<>>
    ELSE <<SessionEvent(start + Head(choices)[2], Head(choices)[1][1],
                        Head(choices)[1][2])>>
             \o Timeline(Tail(choices), start + Head(choices)[2])

Timelines ==
    UNION {{Timeline(choices, 0) : choices \in [1 .. n -> EventKinds \X Deltas]} :
           n \in 0 .. MaxEvents}

SessionizeInit ==
    /\ subject \in [events : Timelines, gap_seconds : GapChoices]
    /\ image = <<>>
    /\ counters = [n \in CounterNames |-> 0]
    /\ PriorityIdle
    /\ GhostIdle
    /\ BusIdle

\* sessionize(events, gap_seconds)
SessionizeCall ==
    /\ image = <<>>
    /\ image' = <<sessionize(subject.events, subject.gap_seconds)>>
    /\ UNCHANGED <<priorityVars, counters, ghostVars, busVars, subject>>

NextSessionize == SessionizeCall

SpecSessionize == SessionizeInit /\ [][NextSessionize]_vars

IsIdleStart(event) == PyLower(event.event_type) = "os.idle_start"

IsP0(event) == event.priority \in {"P0", "p0"}

\* the positions in the input of the events that are not os.idle_start
KeptPositions ==
    SelectSeq([i \in 1 .. Len(subject.events) |-> i],
              LAMBDA i : ~IsIdleStart(subject.events[i]))

RECURSIVE Flat(_)
\* the sessions one after the other
Flat(sessions) ==
    IF sessions = <<>> THEN <<>> ELSE Head(sessions) \o Flat(Tail(sessions))

\* the positions in Flat(sessions) of the last events of the sessions
SessionEnds(sessions) ==
    {Len(Flat(SubSeq(sessions, 1, n))) : n \in 1 .. Len(sessions)}

\* the gap between the k-th and the next kept event reaches gap_seconds
GapAfter(k) ==
    /\ subject.gap_seconds > 0
    /\ subject.events[KeptPositions[k + 1]].ts - subject.events[KeptPositions[k]].ts
           >= 2 * subject.gap_seconds

\* an os.idle_start lies between the k-th and the next kept event
IdleAfter(k) == KeptPositions[k + 1] > KeptPositions[k] + 1

\* C15: sessionize, iterating events chronologically, closes the current
\* session whenever the gap since the previous event of that session is
\* >= gap_seconds (for gap_seconds > 0) and starts a new session at the next
\* event, and closes the current session at every os.idle_start, which
\* belongs to no session; inside any returned session consecutive events
\* are less than gap_seconds apart and no os.idle_start occurs.
C15_SessionsSplitAtGapAndIdle ==
    image # <<>> =>
        /\ Flat(image[1])
               = [k \in DOMAIN KeptPositions |-> subject.events[KeptPositions[k]]]
        /\ \A n \in DOMAIN image[1] : image[1][n] # <<>>
        /\ \A k \in 1 .. (Len(KeptPositions) - 1) :
              /\ GapAfter(k) => k \in SessionEnds(image[1])
              /\ IdleAfter(k) => k \in SessionEnds(image[1])
              /\ k \in SessionEnds(image[1])
                    => \/ GapAfter(k)
                       \/ IdleAfter(k)
                       \/ IsP0(subject.events[KeptPositions[k]])
        /\ \A n \in DOMAIN image[1] :
              /\ \A j \in DOMAIN image[1][n] : ~IsIdleStart(image[1][n][j])
              /\ subject.gap_seconds > 0 =>
                    \A j \in 1 .. (Len(image[1][n]) - 1) :
                        image[1][n][j + 1].ts - image[1][n][j].ts
                            < 2 * subject.gap_seconds

\* a gap of exactly gap_seconds closed the first session and an
\* os.idle_start the second
C15_Witness ==
    /\ subject # None
    /\ subject.gap_seconds = 2
    /\ Len(subject.events) = 3
    /\ subject.events[1].priority = "P1"
    /\ subject.events[2].priority = "P1"
    /\ ~IsIdleStart(subject.events[1])
    /\ ~IsIdleStart(subject.events[2])
    /\ subject.events[2].ts - subject.events[1].ts = 4
    /\ IsIdleStart(subject.events[3])
    /\ image # <<>>
    /\ image[1] = <<<<subject.events[1]>>, <<subject.events[2]>>>>

\* C16: a P0 event is appended to the current session and then closes it:
\* in every returned session a P0 event can only be the last element, and
\* the event that follows a P0 event starts a new session whatever the gap.
C16_P0ClosesSession ==
    image # <<>> =>
        /\ \A n \in DOMAIN image[1] :
              \A j \in 1 .. (Len(image[1][n]) - 1) : ~IsP0(image[1][n][j])
        /\ \A k \in DOMAIN KeptPositions :
              IsP0(subject.events[KeptPositions[k]]) =>
                  /\ k \in SessionEnds(image[1])
                  /\ Flat(image[1])[k] = subject.events[KeptPositions[k]]

\* a P0 event joined the session of the event before it and closed it; the
\* event at the same instant started the next session
C16_Witness ==
    /\ subject # None
    /\ subject.gap_seconds = 2
    /\ Len(subject.events) = 3
    /\ subject.events[1].priority = "P1"
    /\ subject.events[2].priority = "P0"
    /\ subject.events[2].event_type = "outlook.send_clicked"
    /\ subject.events[3].ts = subject.events[2].ts
    /\ ~IsIdleStart(subject.events[1])
    /\ ~IsIdleStart(subject.events[3])
    /\ image # <<>>
    /\ Len(image[1]) = 2
    /\ Len(image[1][1]) = 2
    /\ image[1][1][2] = subject.events[2]
    /\ image[1][2] = <<subject.events[3]>>

(***************************************************************************)
(* build_routine_candidates as a function under study: it is applied to    *)
(* the sessions as rows_to_sessions returns them, ordered by start_ts.     *)
(***************************************************************************)
MaxRoutineSessions == 3

\* the key_events of a session: the two pairs of tests/test_routine.py, a
\* list that repeats a pair, and a list of one event
KeyEventChoices ==
    {<<"excel.export_pdf", "outlook.send_clicked">>,
     <<"excel.export_pdf", "outlook.compose_started">>,
     <<"excel.export_pdf", "outlook.send_clicked", "excel.export_pdf",
       "outlook.send_clicked">>,
     <<"outlook.send_clicked">>}

\* the day of the i-th session: the second is a week after the first
DayOf(i) == IF i = 1 THEN 0 ELSE 5 + i

\* the i-th session has an id of its own or the id of the first
SessionIdChoices(i) == {"s" \o ToString(i), "s1"}

RoutineSessionChoices(i) ==
    {RoutineSession(id, DayOf(i), DayOf(i), key_events) :
        id \in SessionIdChoices(i), key_events \in KeyEventChoices}

SessionLists ==
    UNION {{sessions \in [1 .. n -> UNION {RoutineSessionChoices(i) : i \in 1 .. n}] :
               \A i \in 1 .. n : sessions[i] \in RoutineSessionChoices(i)} :
           n \in 0 .. MaxRoutineSessions}

\* n_min, n_max, min_support, max_patterns, max_evidence
RoutineProfiles ==
    {<<2, 2, 2, 10, 2>>, <<2, 3, 1, 10, 1>>, <<1, 2, 1, 2, 0>>,
     <<2, 3, 2, 0, 2>>, <<0, 2, 1, 10, 2>>, <<2, 3, 1, 1, 2>>,
     <<1, 4, 1, 3, 3>>}

RoutineSubject(sessions, profile, now) ==
    [sessions |-> sessions, max_evidence |-> profile[5], n_min |-> profile[1],
     n_max |-> profile[2], min_support |-> profile[3],
     max_patterns |-> profile[4], now |-> now]

RoutineInit ==
    /\ subject \in {RoutineSubject(sessions, profile, DayOf(MaxRoutineSessions) + 1) :
                       sessions \in SessionLists, profile \in RoutineProfiles}
    /\ image = <<>>
    /\ counters = [n \in CounterNames |-> 0]
    /\ PriorityIdle
    /\ GhostIdle
    /\ BusIdle

\* build_routine_candidates(sessions, ...)
BuildCall ==
    /\ image = <<>>
    /\ \E candidates \in
              build_routine_candidates(subject.sessions, subject.n_min,
                                       subject.n_max, subject.min_support,
                                       subject.max_patterns,
                                       subject.max_evidence, subject.now) :
          image' = <<candidates>>
    /\ UNCHANGED <<priorityVars, counters, ghostVars, busVars, subject>>

NextRoutine == BuildCall

SpecRoutine == RoutineInit /\ [][NextRoutine]_vars

\* g occurs in key_events as a run of neighbouring events
OccursIn(g, key_events) ==
    \E idx \in 1 .. (Len(key_events) - Len(g) + 1) :
        SubSeq(key_events, idx, idx + Len(g) - 1) = g

\* the runs of neighbouring key events of the sessions, of any length
Runs ==
    UNION {{SubSeq(subject.sessions[i].key_events, a, b) :
               a \in 1 .. Len(subject.sessions[i].key_events),
               b \in 1 .. Len(subject.sessions[i].key_events)} :
           i \in DOMAIN subject.sessions} \ {<<>>}

\* the positions of the sessions that contain g
Containing(g) ==
    SelectSeq([i \in DOMAIN subject.sessions |-> i],
              LAMBDA i : OccursIn(g, subject.sessions[i].key_events))

\* the ids of the sessions that contain g, each once, in scan order
Contributors(g) ==
    _dedupe([k \in DOMAIN Containing(g) |->
                subject.sessions[Containing(g)[k]].session_id])

\* C17: for each candidate returned by build_routine_candidates the pattern
\* is a contiguous n-gram of some session's key_events with
\* n_min <= n <= n_max, its support is the number of distinct session_ids
\* whose key_events contain that n-gram contiguously (several occurrences
\* in one session count once), and its support is not below min_support.
C17_SupportCountsDistinctSessions ==
    image # <<>> =>
        \A k \in DOMAIN image[1] :
            /\ \E g \in Runs :
                  /\ image[1][k].pattern_json = PatternJson(g)
                  /\ subject.n_min <= Len(g)
                  /\ Len(g) <= subject.n_max
                  /\ image[1][k].support
                         = Cardinality({subject.sessions[i].session_id :
                                           i \in {j \in DOMAIN subject.sessions :
                                                     OccursIn(g, subject.sessions[j].key_events)}})
            /\ image[1][k].support >= subject.min_support

\* the pair that two sessions share (one of them twice, and a third session
\* with the id of the first as well) is returned with support 2
C17_Witness ==
    /\ subject # None
    /\ Len(subject.sessions) = 3
    /\ subject.sessions[1].key_events
           = <<"excel.export_pdf", "outlook.send_clicked", "excel.export_pdf",
               "outlook.send_clicked">>
    /\ subject.sessions[2].session_id = "s2"
    /\ subject.sessions[2].key_events = <<"excel.export_pdf", "outlook.send_clicked">>
    /\ subject.sessions[3].session_id = "s1"
    /\ subject.sessions[3].key_events = <<"excel.export_pdf", "outlook.send_clicked">>
    /\ subject.n_min = 2
    /\ subject.n_max = 2
    /\ subject.min_support = 2
    /\ image # <<>>
    /\ Len(image[1]) = 1
    /\ image[1][1].pattern_json
           = "{\"type\":\"ngram\",\"events\":[\"excel.export_pdf\",\"outlook.send_clicked\"],\"n\":2}"
    /\ image[1][1].support = 2

\* C18: the list returned by build_routine_candidates is sorted by support
\* descending and then confidence descending and holds at most max_patterns
\* candidates (none when max_patterns <= 0); the evidence_session_ids of a
\* candidate are the last max_evidence contributing session ids in scan
\* order: at most max_evidence ids, each of a session with the pattern.
C18_SortedTruncatedWithEvidence ==
    image # <<>> =>
        /\ \A i \in DOMAIN image[1] : \A j \in DOMAIN image[1] :
              i < j =>
                  \/ image[1][i].support > image[1][j].support
                  \/ /\ image[1][i].support = image[1][j].support
                     /\ image[1][i].confidence >= image[1][j].confidence
        /\ Len(image[1]) <= Max(0, subject.max_patterns)
        /\ \A k \in DOMAIN image[1] :
              /\ Len(image[1][k].evidence_session_ids) <= subject.max_evidence
              /\ \E g \in Runs :
                    /\ image[1][k].pattern_json = PatternJson(g)
                    /\ \E cut \in 0 .. Len(Contributors(g)) :
                          /\ image[1][k].evidence_session_ids
                                 = SubSeq(Contributors(g), cut + 1,
                                          Len(Contributors(g)))
                          /\ \/ cut = 0
                             \/ Len(image[1][k].evidence_session_ids)
                                    = subject.max_evidence

\* three sessions have the pair, the evidence is the last one of their ids,
\* and the list is cut to one candidate of several
C18_Witness ==
    /\ subject # None
    /\ Len(subject.sessions) = 3
    /\ \A i \in 1 .. 3 :
          /\ subject.sessions[i].session_id = "s" \o ToString(i)
          /\ OccursIn(<<"excel.export_pdf", "outlook.send_clicked">>,
                      subject.sessions[i].key_events)
    /\ subject.sessions[3].key_events # subject.sessions[2].key_events
    /\ subject.max_evidence = 1
    /\ subject.n_max = 3
    /\ image # <<>>
    /\ Len(image[1]) > 1
    /\ image[1][1].support = 3
    /\ image[1][1].evidence_session_ids = <<"s3">>
    /\ image[1][2].support < 3

\* C20: the events of a batch whose insert failed do not end up in the store:
\* the events table holds the rows of the batches whose insert succeeded,
\* one per count of store.insert_ok_total, and no others.
C20_FailedBatchNotStored == Len(events) = counters["store.insert_ok_total"]

\* the queue hands out the items in the order in which they were enqueued
QueueIsFifo == _queue = SubSeq(posted, Taken + 1, Len(posted))

\* the rows of the log of appends
AppendedRows == [i \in DOMAIN appended |-> appended[i].row]

\* outputs leave the buffer for the store in the order in which they entered it
HandedInAppendOrder == AppendedRows = handed \o _buffer

\* the outputs of an earlier queue item were appended before those of a
\* later one
AppendedInQueueOrder ==
    \A i, j \in DOMAIN appended :
        i < j /\ appended[j].item # 0 =>
            /\ appended[i].item # 0
            /\ appended[i].item <= appended[j].item

\* what this step added to the queue
Added == SubSeq(posted', Len(posted) + 1, Len(posted'))

\* the objects that entered the queue with one request are the first so many
\* events of its array, in the order of the array
RequestOrderKept ==
    /\ posted' = posted \o Added
    /\ _queue' = _queue \o Added
    /\ \E request \in Requests :
          /\ request.content # None
          /\ EventsOf(request.content[1]) # None
          /\ Len(Added) <= Len(EventsOf(request.content[1])[1])
          /\ \A i \in DOMAIN Added :
                Added[i] = EventsOf(request.content[1])[1][i].map

\* C22: events are persisted in ingestion order: the outputs made while an
\* earlier queue item is handled are passed to the store no later than those
\* of a later item (an earlier batch, or an earlier position of one batch),
\* the queue is first in, first out, and the events of one HTTP request
\* enter the queue in the order of its array.
C22_PersistedInIngestionOrder ==
    /\ [](QueueIsFifo /\ HandedInAppendOrder /\ AppendedInQueueOrder)
    /\ [][Len(posted') > Len(posted) => RequestOrderKept]_vars

\* a request of two events followed another request into the queue, and the
\* outputs of the first and of the third queue item were passed to the store
\* in one batch
C22_Witness ==
    /\ response # None
    /\ response.status = 200
    /\ response.body.count = 2
    /\ posted = <<Compose.map, FgA.map, FgB.map>>
    /\ Len(handed) = 2
    /\ appended[1].item = 1
    /\ appended[2].item = 3
    /\ Len(events) = 2

(***************************************************************************)
(* SQLiteStore.insert_events, one pass of its retry loop at a time.        *)
(***************************************************************************)
MaxRetry == 3

BackoffChoices == {0, 50, 100}

BatchChoices == {<<"row1">>, <<"row1", "row2">>}

InsertSubject(rows, retry_attempts, retry_backoff_ms) ==
    [rows |-> rows, retry_attempts |-> retry_attempts,
     retry_backoff_ms |-> retry_backoff_ms]

InsertInit ==
    /\ subject \in {InsertSubject(rows, retry_attempts, retry_backoff_ms) :
                       rows \in BatchChoices, retry_attempts \in 0..MaxRetry,
                       retry_backoff_ms \in BackoffChoices}
    /\ image = <<>>
    /\ counters = [n \in CounterNames |-> 0]
    /\ PriorityIdle
    /\ GhostIdle
    /\ BusIdle

\* the call has returned or raised
Raised_or_returned == image # <<>> /\ image[Len(image)].sleep = None

InsertOutcomes ==
    {StoreOutcome("ok", 0), StoreOutcome("locked", 1), StoreOutcome("error", 1),
     StoreOutcome("error", 2)}

\* the store after the attempt left it as in store
StoreLeft(store) == events' = store.events /\ pending' = store.pending

\* one pass of the loop of insert_events(rows, retry_attempts, retry_backoff_ms)
InsertAttempt ==
    /\ ~Raised_or_returned
    /\ \E o \in InsertOutcomes :
          /\ image' = Append(image, Attempted(Len(image), o,
                                              subject.retry_attempts,
                                              subject.retry_backoff_ms))
          /\ StoreLeft(Executed(events, pending, subject.rows, o))
    /\ UNCHANGED <<priorityVars, counters, ghostVars, threadVars, config,
                   _queue, _buffer, stopped, response, posted, minted, subject>>

NextInsert == InsertAttempt

SpecInsert == InsertInit /\ [][NextInsert]_vars

\* a pass of the loop that is due is made: the thread is not starved
SpecInsertFair == SpecInsert /\ WF_vars(NextInsert)

\* the attempts made so far follow the retry policy
RetryPolicy ==
    /\ Len(image) <= subject.retry_attempts + 1
    /\ \A i \in DOMAIN image :
          /\ image[i].attempt = i - 1
          /\ i < Len(image) => image[i].outcome = "locked"
          /\ image[i].sleep # None =>
                /\ image[i].outcome = "locked"
                /\ i <= subject.retry_attempts
                /\ image[i].sleep = Some(subject.retry_backoff_ms * 2 ^ (i - 1))
          /\ image[i].sleep = None =>
                \/ image[i].outcome # "locked"
                \/ i = subject.retry_attempts + 1

\* C19: insert_events retries only on "database is locked": it makes at most
\* retry_attempts + 1 attempts, sleeps retry_backoff_ms * 2^attempt after the
\* failed attempt number attempt, raises when the last attempt is locked too
\* and raises any other error at once; every call returns or raises.
C19_RetriesOnlyOnLockAndTerminates == []RetryPolicy /\ <>Raised_or_returned

\* three retries used up: sleeps of 50, 100 and 200 ms, then the raise
C19_Witness ==
    /\ subject.retry_attempts = 3
    /\ subject.retry_backoff_ms = 50
    /\ Len(image) = 4
    /\ \A i \in 1..4 : image[i].outcome = "locked"
    /\ image[3].sleep = Some(200)
    /\ image[4].sleep = None

(***************************************************************************)
(* IngestHandler.do_POST on one request, for every state of the queue.     *)
(***************************************************************************)
HeaderChoices == {None, Some("secret"), Some("wrong")}

PathChoices == {"/events", "/stats"}

BodyChoices ==
    {None, Some(Garbage), Some(JInt(1)), Some(FgA), Some(JList(<<>>)),
     Some(JList(<<FgA, FgB>>)), Some(JList(<<FgA, JStr("x")>>)),
     Some(JList(<<FgA, FgB, Bare>>))}

IngestRequests ==
    {Request(path, header, content) :
        path \in PathChoices, header \in HeaderChoices, content \in BodyChoices}

IngestConfigs ==
    {Config(max_size, "lenient", token, GuardRules({}, "strip"), 2) :
        max_size \in {0, 2, 3}, token \in {"", "secret"}}

QueueChoices == {<<>>, <<Bare.map>>, <<Bare.map, FgB.map>>}

IngestSubject(request, cfg, queue) ==
    [queue |-> queue, request |-> request, cfg |-> cfg]

IngestInit ==
    /\ subject \in {IngestSubject(request, cfg, queue) :
                       request \in IngestRequests, cfg \in IngestConfigs,
                       queue \in QueueChoices}
    /\ image = <<>>
    /\ counters = [n \in CounterNames |-> 0]
    /\ PriorityIdle
    /\ GhostIdle
    /\ BusIdle

\* do_POST serving subject.request
PostCall ==
    /\ image = <<>>
    /\ image' = <<do_POST(subject.request, subject.cfg, subject.queue, counters)>>
    /\ UNCHANGED <<priorityVars, counters, ghostVars, busVars, subject>>

NextIngest == PostCall

SpecIngest == IngestInit /\ [][NextIngest]_vars

\* the request carries the configured token
TokenMatches == subject.request.header = Some(subject.cfg.token)

\* C24: with a token configured, a POST /events whose X-Collector-Token is
\* absent or differs from it is answered 401 and enqueues nothing, whatever
\* its body; with no token configured no request is answered 401.
C24_TokenMismatchIs401 ==
    image # <<>> =>
        /\ (subject.request.path = "/events" /\ subject.cfg.token # ""
                /\ ~TokenMatches) =>
              (image[1].response.status = 401 /\ image[1].queue = subject.queue)
        /\ (subject.cfg.token = "" \/ TokenMatches) =>
              image[1].response.status # 401

\* a well-formed event with a wrong token meets a queue with room
C24_Witness ==
    /\ image # <<>>
    /\ subject.request = Request("/events", Some("wrong"), Some(FgA))
    /\ subject.cfg.token = "secret"
    /\ subject.cfg.max_size = 0
    /\ image[1].response.status = 401
    /\ image[1].queue = subject.queue

\* the parsed body as the list of its elements, when it is an object or a list
BodyItems ==
    IF subject.request.content = None THEN None
    ELSE IF subject.request.content[1].kind = "dict"
    THEN Some(<<subject.request.content[1]>>)
    ELSE IF subject.request.content[1].kind = "list"
    THEN Some(subject.request.content[1].items)
    ELSE None

AllObjects ==
    BodyItems # None /\ \A i \in DOMAIN BodyItems[1] : BodyItems[1][i].kind = "dict"

\* the queue is the old queue followed by the first n events of the request
EnqueuedFirst(n) ==
    /\ AllObjects
    /\ n <= Len(BodyItems[1])
    /\ image[1].queue = subject.queue \o [i \in 1 .. n |-> BodyItems[1][i].map]

\* the request reaches the parsing of its body
Admitted ==
    /\ subject.request.path = "/events"
    /\ subject.cfg.token = "" \/ TokenMatches
    /\ subject.request.content # None

\* C25: what entered the queue is what the response reports: 200 has count =
\* the number of objects of the body, all enqueued; 400 (invalid JSON, a body
\* that is neither object nor list, an element that is not an object), 401,
\* 404 and 411 enqueue nothing; 429 has enqueued exactly the events before the
\* first rejected one, as many as its queued field says.
C25_ResponseReportsEnqueued ==
    image # <<>> =>
        /\ image[1].response.status \in {200, 400, 401, 404, 411, 429}
        /\ image[1].response.status = 200 =>
              /\ AllObjects
              /\ image[1].response.body.count = Len(BodyItems[1])
              /\ EnqueuedFirst(Len(BodyItems[1]))
        /\ image[1].response.status \in {400, 401, 404, 411} =>
              image[1].queue = subject.queue
        /\ (Admitted /\ ~AllObjects) => image[1].response.status = 400
        /\ image[1].response.status = 429 =>
              /\ EnqueuedFirst(image[1].response.body.queued)
              /\ image[1].response.body.queued < Len(BodyItems[1])

\* three events meet a queue with room for two: 429 with queued = 2
C25_Witness ==
    /\ image # <<>>
    /\ subject.request.content = Some(JList(<<FgA, FgB, Bare>>))
    /\ subject.queue = <<Bare.map>>
    /\ image[1].response.status = 429
    /\ image[1].response.body.queued = 2
    /\ image[1].queue = <<Bare.map, FgA.map, FgB.map>>

(***************************************************************************)
(* _classify_priority for every processor configuration, and the          *)
(* priorities of what process returns.                                     *)
(***************************************************************************)
ClassifyEventTypes ==
    {"os.file_saved", "OS.File_Saved", "os.file_opened", "os.clipboard_meta",
     "os.foreground_changed", "custom.event", "Custom.Event"}

DeclaredPriorities == {"P0", "P1", "P2", "P9"}

ConfiguredTypes == {{}, {"Custom.Event"}, {"os.clipboard_meta", "os.file_saved"}}

FocusChoices ==
    {None,
     Some(FocusState(GuardedEnvelope("os.foreground_changed", "B", TsString(0)),
                     _to_epoch(TsString(0))))}

ClassifySubject(envelope, focus, p0_event_types, p1_event_types, p2_event_types) ==
    [envelope |-> envelope, focus |-> focus, p0_event_types |-> p0_event_types,
     p1_event_types |-> p1_event_types, p2_event_types |-> p2_event_types]

Declaring(event_type, priority) ==
    [GuardedEnvelope(event_type, "A", TsString(2)) EXCEPT !.priority = priority]

ClassifyInit ==
    /\ subject \in {ClassifySubject(Declaring(event_type, priority), focus,
                                     p0, p1, p2) :
                       event_type \in ClassifyEventTypes,
                       priority \in DeclaredPriorities, focus \in FocusChoices,
                       p0 \in ConfiguredTypes, p1 \in ConfiguredTypes,
                       p2 \in ConfiguredTypes}
    /\ image = <<>>
    /\ counters = [n \in CounterNames |-> 0]
    /\ PriorityIdle
    /\ GhostIdle
    /\ BusIdle

Classified(priority, out) == [priority |-> priority, out |-> out]

\* _classify_priority on the sets of a processor configured as in subject,
\* and process of a processor with no configured types
ClassifyCall ==
    /\ image = <<>>
    /\ image' =
          <<Classified(
              _classify_priority(PyLower(subject.envelope.event_type),
                                 subject.envelope.priority,
                                 TypeSet(P0_EVENT_TYPES, subject.p0_event_types),
                                 TypeSet(P1_EVENT_TYPES, subject.p1_event_types),
                                 TypeSet(P2_EVENT_TYPES, subject.p2_event_types)),
              process(<<>>, subject.focus, 0, subject.envelope, 0, 10,
                      drop_p2_when_queue_over, UuidString(0)).out)>>
    /\ UNCHANGED <<priorityVars, counters, ghostVars, busVars, subject>>

NextClassify == ClassifyCall

SpecClassify == ClassifyInit /\ [][NextClassify]_vars

\* the lower-cased event type is in the set of priority p: built in or
\* configured for p
InSet(built_in, configured) ==
    \E item \in built_in \cup configured :
        PyLower(item) = PyLower(subject.envelope.event_type)

InP0 == InSet(P0_EVENT_TYPES, subject.p0_event_types)

InP1 == InSet(P1_EVENT_TYPES, subject.p1_event_types)

InP2 == InSet(P2_EVENT_TYPES, subject.p2_event_types)

\* C26: _classify_priority is P0 for a type of the P0 set, else P1 for one of
\* the P1 set, else P2 for one of the P2 set, else the declared priority when
\* it is P0, P1 or P2, else P1; a built-in P0 type is P0 whatever was
\* declared, an unknown type keeps its declared priority, and every envelope
\* that process returns has a priority in {P0, P1, P2}.
C26_ClassifiedBySetsThenDeclared ==
    image # <<>> =>
        /\ InP0 => image[1].priority = "P0"
        /\ (~InP0 /\ InP1) => image[1].priority = "P1"
        /\ (~InP0 /\ ~InP1 /\ InP2) => image[1].priority = "P2"
        /\ (~InP0 /\ ~InP1 /\ ~InP2) =>
              image[1].priority =
                  IF subject.envelope.priority \in {"P0", "P1", "P2"}
                  THEN subject.envelope.priority ELSE "P1"
        /\ PyLower(subject.envelope.event_type) \in P0_EVENT_TYPES =>
              image[1].priority = "P0"
        /\ \A i \in DOMAIN image[1].out :
              image[1].out[i].priority \in {"P0", "P1", "P2"}

\* a built-in P0 type, written in capitals, declared P2 and configured as P2
C26_Witness ==
    /\ image # <<>>
    /\ subject.envelope.event_type = "OS.File_Saved"
    /\ subject.envelope.priority = "P2"
    /\ "os.file_saved" \in subject.p2_event_types
    /\ image[1].priority = "P0"
    /\ Len(image[1].out) = 1
    /\ image[1].out[1].priority = "P0"

(***************************************************************************)
(* run_retention on a store whose events carry the timestamps the sensors  *)
(* sent: whole seconds, fractions, and UTC offsets other than Z.           *)
(***************************************************************************)
IsoText(day, hour, second, fraction, zone) ==
    "2026-11-" \o Two(day) \o "T" \o Two(hour) \o ":00:" \o Two(second)
        \o fraction \o zone

EventTsChoices ==
    {IsoText(2, 12, 0, "", "Z"), IsoText(5, 12, 0, "", "Z"),
     IsoText(4, 12, 0, "", "Z"), IsoText(4, 12, 0, ".500000", "Z"),
     IsoText(4, 12, 10, "", "+01:00"), IsoText(4, 11, 50, "", "-01:00")}

EventRowChoices == {RetentionRow("e", ts, "") : ts \in EventTsChoices}

EventTableChoices ==
    {<<>>} \cup {<<a>> : a \in EventRowChoices}
           \cup {<<a, b>> : a, b \in EventRowChoices}

\* rows the collector wrote itself, three days old and of now
OwnRows(status) ==
    <<RetentionRow("old", _format_ts(InstantOf(IsoText(2, 12, 0, "", "Z"))), status),
      RetentionRow("new", _format_ts(InstantOf(IsoText(5, 12, 0, "", "Z"))), status)>>

TablesWith(event_rows) ==
    [t \in RetentionTables |->
        IF t = "events" THEN event_rows
        ELSE IF t = "handoff_queue" THEN OwnRows("pending")
        ELSE OwnRows("")]

RetentionPolicy(raw_events_days, other_days, batch_size) ==
    [days |-> [t \in RetentionTables |->
                  IF t = "events" THEN raw_events_days ELSE other_days],
     batch_size |-> batch_size]

\* utc_now() at the run: noon of 2026-11-05, on the second or half past it
RetentionClock ==
    {InstantOf(IsoText(5, 12, 0, "", "Z")),
     InstantOf(IsoText(5, 12, 0, ".500000", "Z"))}

RetentionSubject(tables, policy, now) ==
    [now |-> now, tables |-> tables, policy |-> policy]

RetentionInit ==
    /\ subject \in {RetentionSubject(TablesWith(event_rows),
                                      RetentionPolicy(d, o, b), now) :
                       event_rows \in EventTableChoices, d \in {0, 1},
                       o \in {0 - 1, 0, 1, 3}, b \in {0, 1},
                       now \in RetentionClock}
    /\ image = <<>>
    /\ counters = [n \in CounterNames |-> 0]
    /\ PriorityIdle
    /\ GhostIdle
    /\ BusIdle

\* run_retention(store, policy, now=subject.now)
RetentionCall ==
    /\ image = <<>>
    /\ image' = <<run_retention(subject.tables, subject.policy, subject.now)>>
    /\ UNCHANGED <<priorityVars, counters, ghostVars, busVars, subject>>

NextRetention == RetentionCall

SpecRetention == RetentionInit /\ [][NextRetention]_vars

\* the rows of a table whose timestamp is at or after now minus days
AtOrAfterCutoff(rows, days) ==
    SelectSeq(rows,
              LAMBDA row : InstantOf(row.ts) >= subject.now - days * TicksPerDay)

\* C23: after run_retention at now, a table with a period of d > 0 days
\* holds exactly those of its rows whose timestamp is at or after now minus
\* d days (no earlier one remains, every other one is still there), and a
\* table with a period <= 0 is as it was.
C23_RetentionKeepsExactlyRecent ==
    image # <<>> =>
        \A t \in RetentionTables :
            image[1][t] =
                IF subject.policy.days[t] > 0
                THEN AtOrAfterCutoff(subject.tables[t], subject.policy.days[t])
                ELSE subject.tables[t]

(***************************************************************************)
(* The threads of the collector process on the connection of its           *)
(* SQLiteStore: the worker of the bus inserts batches, the retention loop  *)
(* deletes by cutoff, and a caller reads.  Each method takes self._lock    *)
(* around its statements and its commit; a thread is "idle" outside the    *)
(* store, at "lock" waiting for the mutex, at "statement" and then at      *)
(* "commit" inside the with block, and at "sleep" between two attempts of  *)
(* insert_events.                                                          *)
(***************************************************************************)
MaxStored == 3

StoreThreads == {"worker", "retention", "caller"}

Thread(pc, attempt) == [attempt |-> attempt, pc |-> pc]

LockSubject(rows, retry_attempts, cutoff_ts, batch_size) ==
    [rows |-> rows, retry_attempts |-> retry_attempts,
     batch_size |-> batch_size, cutoff_ts |-> cutoff_ts]

\* a row of 2026-11-04 noon and the batches the worker inserts, of 2026-11-05
StoredBefore == <<RetentionRow("e0", IsoText(4, 12, 0, "", "Z"), "")>>

LockBatches ==
    {<<RetentionRow("e1", IsoText(5, 12, 0, "", "Z"), "")>>,
     <<RetentionRow("e1", IsoText(4, 11, 0, "", "Z"), ""),
       RetentionRow("e2", IsoText(5, 12, 0, "", "Z"), "")>>}

LockInit ==
    /\ subject \in {LockSubject(rows, retry_attempts,
                                IsoText(5, 11, 0, "", "Z"), batch_size) :
                       rows \in LockBatches, retry_attempts \in {0, 1},
                       batch_size \in {0, 1}}
    /\ image = <<>>
    /\ threads = [t \in StoreThreads |-> Thread("idle", 0)]
    /\ since_flush = 0
    /\ _lock = None
    /\ events = StoredBefore
    /\ pending = <<>>
    /\ config = None
    /\ _queue = <<>>
    /\ _buffer = <<>>
    /\ stopped = FALSE
    /\ response = None
    /\ posted = <<>>
    /\ minted = 0
    /\ counters = [n \in CounterNames |-> 0]
    /\ PriorityIdle
    /\ GhostIdle

\* thread t goes on to pc
Moved(t, pc, attempt) == threads' = [threads EXCEPT ![t] = Thread(pc, attempt)]

\* a variant of Left in which the with block is left with the mutex held
Left_holding(lock) == lock

\* the mutex after its holder left the with block, by its end or by an
\* exception
Left(lock) == None

\* a thread calls a method of the store and comes to its with self._lock
Call(t) ==
    /\ threads[t].pc = "idle"
    /\ t = "worker" => Len(events) + Len(pending) < MaxStored
    /\ Moved(t, "lock", 0)
    /\ UNCHANGED <<priorityVars, counters, ghostVars, pureVars, config, _queue,
                   _buffer, stopped, events, pending, response, posted,
                   minted, _lock, since_flush>>

\* with self._lock: the thread goes on when no thread holds the mutex
Enter(t) ==
    /\ threads[t].pc = "lock"
    /\ _lock = None
    /\ _lock' = Some(t)
    /\ Moved(t, "statement", threads[t].attempt)
    /\ UNCHANGED <<priorityVars, counters, ghostVars, pureVars, config, _queue,
                   _buffer, stopped, events, pending, response, posted,
                   minted, since_flush>>

\* the executemany of insert_events: it goes through, or it raises and the
\* except clause retries after a sleep or raises
Insert ==
    /\ threads["worker"].pc = "statement"
    /\ \E o \in InsertOutcomes :
          IF o.outcome = "ok"
          THEN /\ pending' = pending \o subject.rows
               /\ Moved("worker", "commit", threads["worker"].attempt)
               /\ UNCHANGED <<events, _lock>>
          ELSE /\ StoreLeft(Executed(events, pending, subject.rows, o))
               /\ _lock' = Left(_lock)
               /\ Moved("worker",
                        IF Retries(o, threads["worker"].attempt,
                                   Attempts(subject.retry_attempts))
                        THEN "sleep" ELSE "idle",
                        threads["worker"].attempt)
    /\ UNCHANGED <<priorityVars, counters, ghostVars, pureVars, config, _queue,
                   _buffer, stopped, response, posted, minted, since_flush>>

\* the DELETE statements of _delete_by_cutoff, which see the rows of the open
\* transaction too
Delete ==
    /\ threads["retention"].pc = "statement"
    /\ events' = _delete_by_cutoff(events, subject.cutoff_ts, subject.batch_size)
    /\ pending' = _delete_by_cutoff(pending, subject.cutoff_ts,
                                    subject.batch_size)
    /\ Moved("retention", "commit", 0)
    /\ UNCHANGED <<priorityVars, counters, ghostVars, pureVars, config, _queue,
                   _buffer, stopped, response, posted, minted, _lock,
                   since_flush>>

\* the SELECT of fetch_events, which returns from inside the with block
Fetch ==
    /\ threads["caller"].pc = "statement"
    /\ _lock' = Left(_lock)
    /\ Moved("caller", "idle", 0)
    /\ UNCHANGED <<priorityVars, counters, ghostVars, pureVars, config, _queue,
                   _buffer, stopped, events, pending, response, posted,
                   minted, since_flush>>

\* self._conn.commit() and the end of the with block
Commit(t) ==
    /\ threads[t].pc = "commit"
    /\ events' = events \o pending
    /\ pending' = <<>>
    /\ _lock' = Left(_lock)
    /\ Moved(t, "idle", 0)
    /\ UNCHANGED <<priorityVars, counters, ghostVars, pureVars, config, _queue,
                   _buffer, stopped, response, posted, minted, since_flush>>

\* time.sleep(sleep_for) is over and the next attempt begins
Wake ==
    /\ threads["worker"].pc = "sleep"
    /\ Moved("worker", "lock", threads["worker"].attempt + 1)
    /\ UNCHANGED <<priorityVars, counters, ghostVars, pureVars, config, _queue,
                   _buffer, stopped, events, pending, response, posted,
                   minted, _lock, since_flush>>

NextLock ==
    \/ \E t \in StoreThreads : Call(t)
    \/ \E t \in StoreThreads : Enter(t)
    \/ Insert
    \/ Delete
    \/ Fetch
    \/ \E t \in StoreThreads : Commit(t)
    \/ Wake

SpecLock == LockInit /\ [][NextLock]_vars

\* the threads between the beginning of their statements and the end of
\* their commit
InSection == {t \in StoreThreads : threads[t].pc \in {"statement", "commit"}}

\* C30: the operations on the shared connection exclude each other: at most
\* one thread is inside a statement-and-commit section; a thread is inside
\* its section exactly while it holds the mutex, so the mutex is held for the
\* whole of an insert attempt including its commit; and it is not held by a
\* thread that sleeps between two attempts of insert_events.
C30_StoreSectionsExclusive ==
    /\ Cardinality(InSection) <= 1
    /\ \A t \in StoreThreads :
          /\ t \in InSection <=> _lock = Some(t)
          /\ threads[t].pc = "sleep" => _lock # Some(t)

\* the worker sleeps after a locked attempt while the retention loop is
\* inside its section and the caller waits for the mutex
C30_Witness ==
    /\ threads["worker"].pc = "sleep"
    /\ threads["retention"].pc = "commit"
    /\ threads["caller"].pc = "lock"
    /\ _lock = Some("retention")

(***************************************************************************)
(* The two threads of EventBus at shutdown: the worker in _run and the     *)
(* caller of stop, a step at a time.  Time passes, a tick being half a     *)
(* second, only while the threads wait: in queue.get, in                   *)
(* store.insert_events, in the drain loop and in join; all else takes no   *)
(* time.  The server is shut down before stop is called, so nothing is     *)
(* enqueued any more.                                                      *)
(***************************************************************************)
\* queue.get(timeout=0.5)
GetTimeout == 1

\* self._worker.join(timeout=5)
JoinTimeout == 10

\* self._batch_size
BatchSize(insert_batch_size) == Max(1, insert_batch_size)

\* self._flush_interval = max(0.1, insert_flush_ms / 1000), in ticks
FlushInterval(insert_flush_ms) == Max(1, (insert_flush_ms + 499) \div 500)

\* max(0, int(drain_seconds)), in ticks
DrainTicks(drain_seconds) == Max(0, drain_seconds) * TicksPerSecond

\* a thread at pc: the batch it passed to insert_events, the outputs of
\* process it has still to append, the time it has waited, the place it
\* goes on at after the insert; of stop, the length of the queue and the
\* time waited when it set the stop flag
Running(batch, outs, pc, age, ret) ==
    [batch |-> batch, outs |-> outs, pc |-> pc, age |-> age, ret |-> ret,
     left |-> 0, waited |-> 0]

BusSubject(insert_flush_ms, drain_seconds) ==
    [insert_flush_ms |-> insert_flush_ms, drain_seconds |-> drain_seconds]

BusQueues ==
    {<<>>, <<Compose.map>>, <<FgA.map, FgB.map>>, <<Compose.map, Replayed.map>>}

BusInit ==
    /\ config \in {Config(2, "lenient", "", GuardRules({}, "strip"), b) :
                      b \in {0, 1, 2}}
    /\ subject \in {BusSubject(insert_flush_ms, drain_seconds) :
                       insert_flush_ms \in {500, 1000},
                       drain_seconds \in {0, 1}}
    /\ image = <<>>
    /\ debounce_seconds \in PipelineDebounce
    /\ _last_event_ts = <<>>
    /\ _focus_state = None
    /\ counters = [n \in CounterNames |-> 0]
    /\ _queue \in BusQueues
    /\ posted = _queue
    /\ _buffer = <<>>
    /\ stopped = FALSE
    /\ events = <<>>
    /\ pending = <<>>
    /\ response = None
    /\ minted = 0
    /\ _lock = None
    /\ threads = [t \in {"worker", "stop"} |->
                     Running(<<>>, <<>>, IF t = "worker" THEN "top" ELSE "idle",
                             0, "")]
    /\ since_flush = 0
    /\ GhostIdle

\* what no step of the two threads changes
Settings == <<debounce_seconds, callVars, pureVars, config, response, posted,
              _lock>>

\* thread t goes on at pc
GoesOn(t, batch, outs, pc, ret) ==
    threads' = [threads EXCEPT ![t].batch = batch, ![t].outs = outs,
                               ![t].pc = pc, ![t].age = 0, ![t].ret = ret]

\* _flush_buffer(force) called by thread t with the buffer as given: it
\* returns at once, to ret, or takes the buffer as its batch and calls
\* store.insert_events
Flushing(t, buffer, force, outs, ret) ==
    IF buffer = <<>>
         \/ (~force /\ since_flush < FlushInterval(subject.insert_flush_ms))
    THEN /\ _buffer' = buffer
         /\ GoesOn(t, <<>>, outs, ret, "")
         /\ UNCHANGED <<handed, since_flush>>
    ELSE /\ _buffer' = <<>>
         /\ handed' = handed \o buffer
         /\ since_flush' = 0
         /\ GoesOn(t, buffer, outs, "insert", ret)

\* store.insert_events returns or raises, and _flush_buffer counts
Inserting(t) ==
    /\ threads[t].pc = "insert"
    /\ \E o \in StoreOutcomes :
          /\ StoreLeft(insert_events(events, pending, threads[t].batch, o))
          /\ counters' = IF o.outcome = "ok"
                         THEN RecordBatch(counters, threads[t].batch)
                         ELSE record_store_insert_fail(counters)
    /\ GoesOn(t, <<>>, threads[t].outs, threads[t].ret, "")
    /\ UNCHANGED <<Settings, _last_event_ts, _focus_state, logVars, _queue,
                   _buffer, stopped, minted, since_flush>>

\* while not self._stop_event.is_set()
LoopTest ==
    /\ threads["worker"].pc = "top"
    /\ GoesOn("worker", <<>>, <<>>, IF stopped THEN "exited" ELSE "get", "")
    /\ UNCHANGED <<Settings, _last_event_ts, _focus_state, counters, logVars,
                   _queue, _buffer, stopped, events, pending, minted,
                   since_flush>>

\* the worker after normalize_event, apply and process handled an item as in h
Took(h) ==
    /\ _last_event_ts' = h.last
    /\ _focus_state' = h.focus
    /\ minted' = h.minted
    /\ counters' = h.metrics
    /\ GoesOn("worker", <<>>, h.out, IF h.passed THEN "append" ELSE "top", "")

\* queue.get returns an item, and the worker takes it up to the loop over
\* the outputs of process
Take ==
    /\ threads["worker"].pc = "get"
    /\ _queue # <<>>
    /\ _queue' = Tail(_queue)
    /\ \E h \in {_run(Head(_queue), now) : now \in WorkerClock} : Took(h)
    /\ UNCHANGED <<Settings, logVars, _buffer, stopped, events, pending,
                   since_flush>>

\* queue.get raises Empty after its timeout, and the worker calls
\* _flush_buffer()
Empty ==
    /\ threads["worker"].pc = "get"
    /\ _queue = <<>>
    /\ threads["worker"].age >= GetTimeout
    /\ Flushing("worker", _buffer, FALSE, <<>>, "top")
    /\ UNCHANGED <<Settings, _last_event_ts, _focus_state, counters, appended,
                   _queue, stopped, events, pending, minted>>

\* a variant of Full that lets one output more into the buffer
Full_one_more(buffer, insert_batch_size) ==
    Len(buffer) > BatchSize(insert_batch_size)

\* len(self._buffer) >= self._batch_size
Full(buffer, insert_batch_size) == Len(buffer) >= BatchSize(insert_batch_size)

\* one round of the loop over the outputs: append and, with the batch full,
\* the forced flush; after the last output the closing _flush_buffer()
Append1 ==
    /\ threads["worker"].pc = "append"
    /\ IF threads["worker"].outs = <<>>
       THEN /\ Flushing("worker", _buffer, FALSE, <<>>, "top")
            /\ UNCHANGED appended
       ELSE /\ appended' = appended \o Logged(<<Head(threads["worker"].outs)>>,
                                              Taken)
            /\ IF Full(Append(_buffer, Head(threads["worker"].outs)),
                       config.insert_batch_size)
               THEN Flushing("worker",
                             Append(_buffer, Head(threads["worker"].outs)),
                             TRUE, Tail(threads["worker"].outs), "append")
               ELSE /\ _buffer' = Append(_buffer, Head(threads["worker"].outs))
                    /\ GoesOn("worker", <<>>, Tail(threads["worker"].outs),
                              "append", "")
                    /\ UNCHANGED <<handed, since_flush>>
    /\ UNCHANGED <<Settings, _last_event_ts, _focus_state, counters, _queue,
                   stopped, events, pending, minted>>

\* EventBus.stop is called
StopCalled ==
    /\ threads["stop"].pc = "idle"
    /\ GoesOn("stop", <<>>, <<>>, "drain", "")
    /\ UNCHANGED <<Settings, _last_event_ts, _focus_state, counters, logVars,
                   _queue, _buffer, stopped, events, pending, minted,
                   since_flush>>

\* the test of the drain loop of stop
Draining ==
    /\ subject.drain_seconds > 0
    /\ _queue # <<>>
    /\ threads["stop"].age < DrainTicks(subject.drain_seconds)

\* the drain loop is left and self._stop_event.set()
SetStop ==
    /\ threads["stop"].pc = "drain"
    /\ ~Draining
    /\ stopped' = TRUE
    /\ threads' = [threads EXCEPT !["stop"].pc = "join", !["stop"].age = 0,
                               !["stop"].left = Len(_queue),
                               !["stop"].waited = threads["stop"].age]
    /\ UNCHANGED <<Settings, _last_event_ts, _focus_state, counters, logVars,
                   _queue, _buffer, events, pending, minted, since_flush>>

\* self._worker.join(timeout=5) returns: the worker has ended, or the
\* timeout has passed
Joined(pc, age) == pc = "exited" \/ age >= JoinTimeout

Join ==
    /\ threads["stop"].pc = "join"
    /\ Joined(threads["worker"].pc, threads["stop"].age)
    /\ GoesOn("stop", <<>>, <<>>, "flush", "")
    /\ UNCHANGED <<Settings, _last_event_ts, _focus_state, counters, logVars,
                   _queue, _buffer, stopped, events, pending, minted,
                   since_flush>>

\* the buffer after self._buffer.extend(last)
Extended(last) ==
    /\ _buffer' = _buffer \o last
    /\ appended' = appended \o Logged(last, 0)
    /\ minted' = minted + Len(last)

\* self._buffer.extend(self._priority.flush())
FinalBlock ==
    /\ threads["stop"].pc = "flush"
    /\ \E now \in StopClock :
          Extended(flush(_focus_state, now, debounce_seconds, UuidString(minted)))
    /\ GoesOn("stop", <<>>, <<>>, "final", "")
    /\ UNCHANGED <<Settings, _last_event_ts, _focus_state, counters, handed,
                   _queue, stopped, events, pending, since_flush>>

\* self._flush_buffer(force=True) of stop
FinalFlush ==
    /\ threads["stop"].pc = "final"
    /\ Flushing("stop", _buffer, TRUE, <<>>, "returned")
    /\ UNCHANGED <<Settings, _last_event_ts, _focus_state, counters, appended,
                   _queue, stopped, events, pending, minted>>

\* a step is due that takes no time
Urgent ==
    \/ threads["worker"].pc \in {"top", "append"}
    \/ /\ threads["worker"].pc = "get"
       /\ _queue # <<>> \/ threads["worker"].age >= GetTimeout
    \/ threads["stop"].pc \in {"flush", "final"}
    \/ threads["stop"].pc = "drain" /\ ~Draining
    \/ /\ threads["stop"].pc = "join"
       /\ Joined(threads["worker"].pc, threads["stop"].age)

\* the time a thread has waited after one more tick
Aged(thread) ==
    IF thread.pc \in {"get", "drain", "join"}
    THEN [thread EXCEPT !.age = Min(thread.age + 1, JoinTimeout)]
    ELSE thread

\* half a second passes
Tick ==
    /\ ~Urgent
    /\ threads' = [t \in DOMAIN threads |-> Aged(threads[t])]
    /\ since_flush' = Min(since_flush + 1,
                          FlushInterval(subject.insert_flush_ms))
    /\ UNCHANGED <<Settings, _last_event_ts, _focus_state, counters, logVars,
                   _queue, _buffer, stopped, events, pending, minted>>

\* the steps of the worker other than the taking of an item
WorkerGoesOn == LoopTest \/ Empty \/ Append1 \/ Inserting("worker")

WorkerNext == Take \/ WorkerGoesOn

StopNext == SetStop \/ Join \/ FinalBlock \/ FinalFlush \/ Inserting("stop")

NextBus == WorkerNext \/ StopCalled \/ StopNext \/ Tick

SpecBus == BusInit /\ [][NextBus]_vars

\* the threads are scheduled and time goes on; that the worker takes a
\* queued item is not required
SpecBusFair ==
    SpecBus /\ WF_vars(WorkerGoesOn) /\ WF_vars(StopNext) /\ WF_vars(Tick)

\* stop is inside or past PriorityProcessor.flush and its final flush
StopFlushes == threads["stop"].pc \in {"flush", "final", "insert"}

\* C28: no two threads are in the PriorityProcessor or at the buffer at the
\* same time: stop calls PriorityProcessor.flush and makes its final flush
\* of the buffer only when the worker thread has ended.
C28_StopFlushesAfterWorkerEnded ==
    StopFlushes => threads["worker"].pc = "exited"

\* the focus blocks that stop appended
StopBlocks == {i \in DOMAIN appended : appended[i].item = 0}

\* the focus state has a start time, and at some reading of the clock of
\* stop it has lasted as the comparison with debounce_seconds says
Lasted(longer) ==
    /\ _focus_state # None
    /\ _focus_state[1].epoch # None
    /\ \E now \in StopClock :
          longer <=> Max(0, now - _focus_state[1].epoch[1]) >= debounce_seconds

\* C21: when stop has returned, the worker has stopped, stop has appended a
\* final focus block exactly if there is a focus state that has lasted
\* debounce_seconds or longer at the time of stop, and its forced flush has
\* left the buffer empty; the stop flag is set only with the queue empty or
\* drain_seconds waited.
C21_StopLeavesBusStopped ==
    /\ stopped =>
          \/ threads["stop"].left = 0
          \/ threads["stop"].waited >= DrainTicks(subject.drain_seconds)
    /\ threads["stop"].pc = "returned" =>
          /\ threads["worker"].pc = "exited"
          /\ _buffer = <<>>
          /\ Cardinality(StopBlocks) <= 1
          /\ StopBlocks # {} => Lasted(TRUE)
          /\ StopBlocks = {} /\ _focus_state # None
                /\ _focus_state[1].epoch # None => Lasted(FALSE)

\* the worker is between two outputs or two items, and stop is not about to
\* flush what it appended
Handled_all == threads["stop"].pc # "final"

PressureEventTypes ==
    {"os.file_saved", "os.file_opened", "os.clipboard_meta",
     "OS.Clipboard_Meta", "os.foreground_changed", "os.window_title_changed",
     "custom.event"}

\* <<qsize, maxsize>>; a queue of maxsize 0 is unbounded
Occupancies == {<<0, 5>>, <<3, 5>>, <<4, 5>>, <<5, 5>>, <<0, 0>>, <<7, 0>>}

\* values of drop_p2_when_queue_over: 0.8, 0.0, 0.5, 1.2
Thresholds == {drop_p2_when_queue_over, <<0, 1>>, <<1, 2>>, <<6, 5>>}

PressureDebounce == 3

\* an empty debounce table, and one that holds the key of the title event
TableChoices ==
    {<<>>,
     [k \in {<<"os.window_title_changed", "A", hmac_sha256("w")>>} |-> 1]}

PressureSubject(envelope, focus, table, qsize, maxsize, over) ==
    [envelope |-> envelope, focus |-> focus, qsize |-> qsize,
     maxsize |-> maxsize, over |-> over, table |-> table]

PressureInit ==
    /\ subject \in {PressureSubject(Declaring(event_type, priority), focus,
                                     table, q[1], q[2], over) :
                       event_type \in PressureEventTypes,
                       priority \in DeclaredPriorities, focus \in FocusChoices,
                       table \in TableChoices, q \in Occupancies,
                       over \in Thresholds}
    /\ image = <<>>
    /\ counters = [n \in CounterNames |-> 0]
    /\ PriorityIdle
    /\ GhostIdle
    /\ BusIdle

\* process, and the metrics it records
Pressed(r) ==
    /\ image' = <<r>>
    /\ counters' = IF r.drop = "" THEN counters
                    ELSE record_drop(counters, r.drop)

PressureCall ==
    /\ image = <<>>
    /\ Pressed(process(subject.table, subject.focus, PressureDebounce,
                       subject.envelope, subject.qsize, subject.maxsize,
                       subject.over, UuidString(0)))
    /\ UNCHANGED <<priorityVars, ghostVars, busVars, subject>>

NextPressure == PressureCall

SpecPressure == PressureInit /\ [][NextPressure]_vars

\* the priority that process assigns to the envelope of the call
ClassifiedAs ==
    _classify_priority(PyLower(subject.envelope.event_type),
                       subject.envelope.priority, P0_EVENT_TYPES,
                       P1_EVENT_TYPES, P2_EVENT_TYPES)

\* queue_ratio >= drop_p2_when_queue_over for the call's queue: the ratio is
\* 0 for an unbounded queue and qsize / maxsize otherwise
UnderPressure ==
    IF subject.maxsize <= 0 THEN subject.over[1] <= 0
    ELSE subject.qsize * subject.over[2] >= subject.over[1] * subject.maxsize

\* C31: process drops an envelope for queue pressure exactly when its
\* classified priority is P2 and queue_ratio >= drop_p2_when_queue_over; the
\* drop returns nothing and is counted once under drop.reason.queue_overflow;
\* an envelope classified P0 or P1 is never dropped by this policy.
C31_P2DroppedExactlyUnderPressure ==
    image # <<>> =>
        /\ image[1].drop = "queue_overflow"
              <=> (ClassifiedAs = "P2" /\ UnderPressure)
        /\ image[1].drop = "queue_overflow" =>
              /\ image[1].out = <<>>
              /\ counters["drop.reason.queue_overflow"] = 1
        /\ image[1].drop # "queue_overflow" =>
              counters["drop.reason.queue_overflow"] = 0
        /\ ClassifiedAs \in {"P0", "P1"} => image[1].drop # "queue_overflow"

\* an unknown type declared P2 with the queue at exactly 0.8 is dropped
C31_Witness ==
    /\ image # <<>>
    /\ subject.envelope.event_type = "custom.event"
    /\ subject.envelope.priority = "P2"
    /\ subject.qsize = 4
    /\ subject.maxsize = 5
    /\ subject.over = drop_p2_when_queue_over
    /\ image[1].drop = "queue_overflow"
    /\ counters["drop.reason.queue_overflow"] = 1

(***************************************************************************)
(* The worker and an inbound object that is not as the schema wants it:    *)
(* the queue holds such an object and a well-formed one behind it.         *)
(***************************************************************************)
\* the well-formed event with one of its fields changed
OneFieldChanged ==
    UNION {{With(WellFormedEvent, k, v) : v \in FieldVariants(k)} :
           k \in DOMAIN WellFormedEvent}

WorkerConfigs ==
    {Config(2, level, "secret", GuardRules({}, "strip"), 2) :
        level \in {"lenient", "strict"}}

\* an empty buffer, and one that holds an output of an earlier item
BufferChoices == {<<>>, <<GuardedEnvelope("os.file_opened", "B", TsString(0))>>}

WorkerInit ==
    /\ config \in WorkerConfigs
    /\ debounce_seconds \in PipelineDebounce
    /\ _last_event_ts \in TableChoices
    /\ _focus_state \in FocusChoices
    /\ counters = [n \in CounterNames |-> 0]
    /\ _queue \in {<<item, WellFormedEvent>> : item \in OneFieldChanged}
    /\ posted = _queue
    /\ _buffer \in BufferChoices
    /\ stopped = FALSE
    /\ events = <<>>
    /\ pending = <<>>
    /\ response = None
    /\ minted = 0
    /\ _lock = None
    /\ threads = <<>>
    /\ since_flush = 0
    /\ GhostIdle
    /\ PureIdle

NextWorker == WorkerSteps

SpecWorker == WorkerInit /\ [][NextWorker]_vars

\* normalize_event raises for the item at the head of the queue
HeadFails ==
    /\ _queue # <<>>
    /\ \A now \in WorkerClock :
          normalize_event(Head(_queue), config.validation_level,
                          UuidString(minted), TsString(now)).error # ""

\* the metrics after one more invalid item
OneMoreInvalid ==
    [counters EXCEPT !["ingest.invalid_total"] = @ + 1,
                     !["drop.reason.schema"] = @ + 1,
                     !["pipeline.dropped_total"] = @ + 1]

\* C33: a queue item whose normalization fails is dropped: nothing of it is
\* buffered or stored, it is counted once under ingest.invalid_total and
\* drop.reason.schema and under nothing else, the focus state, the debounce
\* table and the buffer stay as they are, and the worker has taken the item
\* and goes on with the next one; whatever field is malformed, and however.
C33_InvalidItemDroppedAndCounted ==
    [][HeadFails =>
          /\ _queue' = Tail(_queue)
          /\ events' = events
          /\ pending' = pending
          /\ handed' = handed
          /\ appended' = appended
          /\ _buffer' = _buffer
          /\ _focus_state' = _focus_state
          /\ _last_event_ts' = _last_event_ts
          /\ counters' = OneMoreInvalid]_vars

(***************************************************************************)
(* The activity_details records that _flush_buffer builds from a batch,    *)
(* and their upsert.  " -- " and " --- " stand for the suffixes that are   *)
(* written with an en dash and an em dash.                                 *)
(***************************************************************************)
PyEndsWith(s, suffix) ==
    Len(s) >= Len(suffix) /\ SubSeq(s, Len(s) - Len(suffix) + 1, Len(s)) = suffix

RECURSIVE WithoutSuffix(_, _)
\* the loop over the suffixes: the first one that matches is cut off
WithoutSuffix(value, suffixes) ==
    IF suffixes = <<>> THEN value
    ELSE IF PyEndsWith(value, Head(suffixes))
    THEN PyStrip(SubSeq(value, 1, Len(value) - Len(Head(suffixes))))
    ELSE WithoutSuffix(value, Tail(suffixes))

_normalize_title(app, title) ==
    LET app_key == PyLower(app)
        value == PyStrip(title)
        notion == IF app_key = "notion.exe"
                  THEN WithoutSuffix(value, <<" - Notion", " -- Notion",
                                              " --- Notion">>)
                  ELSE value
    IN  IF app_key = "code.exe"
        THEN WithoutSuffix(notion, <<" - Visual Studio Code",
                                     " - Visual Studio Code Insiders",
                                     " - Code">>)
        ELSE notion

\* the settings as EventBus.__init__ keeps them
DetailSettings(min_duration_sec, store_hint, full_title_apps, max_title_len) ==
    [min_duration_sec |-> Max(0, min_duration_sec), store_hint |-> store_hint,
     full_title_apps |-> {PyLower(item) : item \in
                             {x \in full_title_apps : PyStrip(x) # ""}},
     max_title_len |-> Max(0, max_title_len)]

DetailRecord(app, title_hash, title_hint, first_seen_ts, last_seen_ts, total_duration_sec) ==
    [app |-> app, last_seen_ts |-> last_seen_ts, title_hash |-> title_hash,
     title_hint |-> title_hint, first_seen_ts |-> first_seen_ts,
     total_duration_sec |-> total_duration_sec]

\* the title of the raw inbound payload, for an app of full_title_apps
RawTitle(output) ==
    IF DOMAIN output.raw # {} /\ Get(output.raw, "payload").kind = "dict"
    THEN Get(Get(output.raw, "payload").map, "window_title")
    ELSE JNull

\* a hint that is cut at the first character
HintOf_one_character(title_clean, s) ==
    IF ~s.store_hint THEN "" ELSE SubSeq(title_clean, 1, 1)

\* title_hint of a record
HintOf(title_clean, s) ==
    IF ~s.store_hint THEN ""
    ELSE IF s.max_title_len > 0 /\ Len(title_clean) > s.max_title_len
    THEN SubSeq(title_clean, 1, s.max_title_len)
    ELSE title_clean

\* the body of the loop of _build_activity_detail_records for one output:
\* the records it appends (none or one)
DetailOf(output, s) ==
    LET duration == Get(output.payload, "duration_sec")
        app == PyStrip(output.app)
        raw_title == RawTitle(output)
        title == IF PyLower(app) \in s.full_title_apps
                    /\ raw_title.kind = "str" /\ PyStrip(raw_title.str) # ""
                 THEN raw_title
                 ELSE Get(output.payload, "window_title")
    IN  IF PyLower(output.event_type) # "os.app_focus_block" THEN <<>>
        ELSE IF ~IsNumber(duration) THEN <<>>
        ELSE IF NumberOf(duration) < s.min_duration_sec THEN <<>>
        ELSE IF app = "" THEN <<>>
        ELSE IF title.kind # "str" THEN <<>>
        ELSE IF PyStrip(title.str) = "" THEN <<>>
        ELSE <<DetailRecord(app,
                            hmac_sha256(_normalize_title(app, PyStrip(title.str))),
                            HintOf(_normalize_title(app, PyStrip(title.str)), s),
                            output.ts, output.ts, NumberOf(duration))>>

RECURSIVE _build_activity_detail_records(_, _)
_build_activity_detail_records(batch, s) ==
    IF batch = <<>> THEN <<>>
    ELSE DetailOf(Head(batch), s) \o _build_activity_detail_records(Tail(batch), s)

\* one row of INSERT ... ON CONFLICT(app, title_hash) DO UPDATE
Upserted(table, r) ==
    LET key == <<r.app, r.title_hash>>
    IN  [k \in DOMAIN table \cup {key} |->
            IF k # key THEN table[k]
            ELSE IF key \notin DOMAIN table
            THEN [last_seen_ts |-> r.last_seen_ts, title_hint |-> r.title_hint,
                  first_seen_ts |-> r.first_seen_ts,
                  total_duration_sec |-> r.total_duration_sec, blocks |-> 1]
            ELSE [table[key] EXCEPT
                    !.last_seen_ts = r.last_seen_ts,
                    !.total_duration_sec = @ + r.total_duration_sec,
                    !.blocks = @ + 1,
                    !.title_hint = IF @ = "" THEN r.title_hint ELSE @]]

RECURSIVE upsert_activity_details(_, _)
upsert_activity_details(table, records) ==
    IF records = <<>> THEN table
    ELSE upsert_activity_details(Upserted(table, Head(records)), Tail(records))

\* a focus block as it reaches the buffer: payload is what the PrivacyGuard
\* left of the payload, raw the inbound object
FocusBlock(app, title, raw_title, duration) ==
    [GuardedEnvelope(focus_block_event_type, app, TsString(0)) EXCEPT
        !.priority = "P1",
        !.payload = [k \in {"window_title", "duration_sec"} |->
                        IF k = "window_title" THEN title ELSE duration],
        !.raw = [k \in {"payload"} |->
                    JDict([x \in {"window_title"} |-> raw_title])]]

DetailApps == {"notion.exe", "Notion.exe", "excel.exe", " "}

\* titles as the guard leaves them: cut to 16 characters and masked
GuardedTitles == {JStr("Plan [REDACTED]"), JStr("Budget.xlsx"), JStr(" "), JNull}

RawTitles == {JStr("Plan alice@example.com - Notion"), JStr(""), JInt(7)}

Durations == {JInt(10), JInt(2), JBool(TRUE), JStr("10")}

AllowlistChoices == {{}, {"Notion.exe"}, {"excel.exe", " "}}

TitleLenChoices == {0, 4, 256}

DetailSubject(output, store_hint, full_title_apps, max_title_len) ==
    [output |-> output, store_hint |-> store_hint,
     full_title_apps |-> full_title_apps, max_title_len |-> max_title_len]

DetailInit ==
    /\ subject \in {DetailSubject(FocusBlock(app, title, raw_title, duration),
                                   store_hint, apps, max_title_len) :
                       app \in DetailApps, title \in GuardedTitles,
                       raw_title \in RawTitles, duration \in Durations,
                       store_hint \in BOOLEAN, apps \in AllowlistChoices,
                       max_title_len \in TitleLenChoices}
    /\ image = <<>>
    /\ counters = [n \in CounterNames |-> 0]
    /\ PriorityIdle
    /\ GhostIdle
    /\ BusIdle

Detailed(records) ==
    [table |-> upsert_activity_details(<<>>, records), records |-> records]

\* the records of a batch of one block, upserted into an empty table
DetailCall ==
    /\ image = <<>>
    /\ image' = <<Detailed(_build_activity_detail_records(
                               <<subject.output>>,
                               DetailSettings(5, subject.store_hint,
                                              subject.full_title_apps,
                                              subject.max_title_len)))>>
    /\ UNCHANGED <<priorityVars, counters, ghostVars, busVars, subject>>

NextDetail == DetailCall

SpecDetail == DetailInit /\ [][NextDetail]_vars

\* the app of the block is on the allowlist (compared in lower case)
Allowlisted ==
    \E item \in subject.full_title_apps :
        PyLower(item) = PyLower(PyStrip(subject.output.app))

\* C34: a detail record built from a focus block has a non-empty
\* title_hint only if store_hint is true and the app of the block is in
\* full_title_apps; for every other app the hint is empty; and a hint, in
\* the record and in the stored row, is never longer than max_title_len.
C34_HintOnlyForAllowlistedApps ==
    image # <<>> =>
        /\ \A i \in DOMAIN image[1].records :
              /\ image[1].records[i].title_hint # ""
                    => (subject.store_hint /\ Allowlisted)
              /\ Len(image[1].records[i].title_hint) <= subject.max_title_len
        /\ \A k \in DOMAIN image[1].table :
              /\ image[1].table[k].title_hint # ""
                    => (subject.store_hint /\ Allowlisted)
              /\ Len(image[1].table[k].title_hint) <= subject.max_title_len

(***************************************************************************)
(* _scrub_payload on a package as json.dumps sees it: objects, lists and   *)
(* strings nested in one another.  The strings of the package come from    *)
(* the store: the window title of the latest event, the resources and the  *)
(* counts of a session summary, the redaction tags of the stored events.   *)
(***************************************************************************)
RECURSIVE ScrubJson(_)
\* _scrub_payload(value) for any JSON value
ScrubJson(value) ==
    IF value.kind = "dict"
    THEN JDict([key \in DOMAIN value.map |-> ScrubJson(value.map[key])])
    ELSE IF value.kind = "list"
    THEN JList([i \in DOMAIN value.items |-> ScrubJson(value.items[i])])
    ELSE IF value.kind = "str" THEN JStr(_scrub_string(value.str))
    ELSE value

ScrubStrings ==
    {"alice@example.com", "C:\\\\data", "/home/u/plan", "123456789012",
     "12345678901", hmac_sha256("123456789012"), "notes", REDACTION_TOKEN}

\* _redaction_summary: the tags of the scanned rows, counted
RedactionSummary(tag) ==
    JDict([k \in {"total", "items"} |->
              IF k = "total" THEN JInt(1)
              ELSE JDict([x \in {tag} |-> JInt(1)])])

\* the package of _build_handoff_payload for a store whose latest event has
\* the window hint hint, whose one session has the resource resource and
\* counts the key counted, and whose events carry the redaction tag tag
Package(hint, resource, counted, tag) ==
    JDict([k \in {"version", "device_context", "recent_sessions",
                  "privacy_state"} |->
              CASE k = "version" -> JStr("1.0")
                [] k = "device_context" ->
                      JDict([x \in {"active_window_hint"} |-> JStr(hint)])
                [] k = "recent_sessions" ->
                      JList(<<JDict([x \in {"resources", "counts"} |->
                                       IF x = "resources"
                                       THEN JList(<<JStr(resource)>>)
                                       ELSE JDict([y \in {counted} |->
                                                      JInt(1)])])>>)
                [] k = "privacy_state" ->
                      JDict([x \in {"content_collection", "redaction_summary"} |->
                                IF x = "content_collection" THEN JBool(FALSE)
                                ELSE RedactionSummary(tag)])])

ScrubInit ==
    /\ subject \in {Package(hint, resource, counted, tag) :
                       hint \in ScrubStrings,
                       resource \in ScrubStrings, counted \in ScrubStrings,
                       tag \in ScrubStrings}
    /\ image = <<>>
    /\ counters = [n \in CounterNames |-> 0]
    /\ PriorityIdle
    /\ GhostIdle
    /\ BusIdle

\* payload = _scrub_payload(payload)
ScrubCall ==
    /\ image = <<>>
    /\ image' = <<ScrubJson(subject)>>
    /\ UNCHANGED <<priorityVars, counters, ghostVars, busVars, subject>>

NextScrub == ScrubCall

SpecScrub == ScrubInit /\ [][NextScrub]_vars

RECURSIVE StringsOf(_)
\* every string of a JSON value: the keys of its objects and the string
\* values, at any depth
StringsOf(value) ==
    IF value.kind = "dict"
    THEN DOMAIN value.map
           \cup UNION {StringsOf(value.map[key]) : key \in DOMAIN value.map}
    ELSE IF value.kind = "list"
    THEN UNION {StringsOf(value.items[i]) : i \in DOMAIN value.items}
    ELSE IF value.kind = "str" THEN {value.str}
    ELSE {}

\* the email, the path or the long-digits pattern is found in s
Sensitive(s) == ContainsEmail(s) \/ PathLike(s) \/ LongDigits(s)

\* C36: in the scrubbed package no string anywhere in the structure, at any
\* depth, matches the email, path or 12-or-more-digits pattern unless it is
\* a 64-hex token.
C36_NoSensitiveStringLeft ==
    image # <<>> =>
        \A s \in StringsOf(image[1]) : Sensitive(s) => IsDigest(s)

(***************************************************************************)
(* _delete_by_cutoff statement by statement on the connection of the       *)
(* store.  The connection is opened with sqlite3.connect(db_path,          *)
(* check_same_thread=False): the sqlite3 module begins a transaction       *)
(* before the first DELETE and ends it at commit().  rows is the table as  *)
(* the connection sees it, committed the table as every other connection   *)
(* sees it.                                                                *)
(***************************************************************************)
MaxRows == 3

CreatedAtChoices ==
    {_format_ts(InstantOf(IsoText(d, 12, 0, "", "Z"))) : d \in {3, 4, 6}}

RowChoices ==
    UNION {[1 .. n -> CreatedAtChoices] : n \in 0 .. MaxRows}

DeleteSubject(rows, cutoff_ts, batch_size) ==
    [rows |-> rows, batch_size |-> batch_size, cutoff_ts |-> cutoff_ts]

Deleting(pc, rows, committed, removed, total) ==
    [rows |-> rows, pc |-> pc, total |-> total, committed |-> committed,
     removed |-> removed]

DeleteInit ==
    /\ subject \in {DeleteSubject([i \in DOMAIN stamps |->
                                       RetentionRow(UuidString(i), stamps[i], "")],
                                   _format_ts(InstantOf(IsoText(5, 12, 0, "", "Z"))),
                                   batch_size) :
                       stamps \in RowChoices, batch_size \in 0 .. MaxRows}
    /\ image = <<>>
    /\ counters = [n \in CounterNames |-> 0]
    /\ PriorityIdle
    /\ GhostIdle
    /\ BusIdle

\* total = 0; with self._lock: if batch_size and batch_size > 0
EnterDelete ==
    /\ image = <<>>
    /\ image' = <<Deleting(IF subject.batch_size > 0 THEN "loop" ELSE "all",
                           subject.rows, subject.rows, 0, 0)>>
    /\ UNCHANGED <<priorityVars, counters, ghostVars, busVars, subject>>

\* the rows one DELETE ... WHERE rowid IN (SELECT ... LIMIT ?) removes
Batch(rows, cutoff_ts, batch_size) == FirstOf(Expired(rows, cutoff_ts), batch_size)

\* one pass of the while loop: the DELETE, SELECT changes(), total += removed,
\* break when removed < batch_size
BatchedDelete(d, gone) ==
    Deleting(IF Cardinality(gone) < subject.batch_size THEN "commit" ELSE "loop",
             Unwrapped(Without(d.rows, gone)), d.committed, Cardinality(gone),
             d.total + Cardinality(gone))

DeleteBatch ==
    /\ image # <<>>
    /\ image[1].pc = "loop"
    /\ image' = <<BatchedDelete(image[1], Batch(image[1].rows, subject.cutoff_ts,
                                                subject.batch_size))>>
    /\ UNCHANGED <<priorityVars, counters, ghostVars, busVars, subject>>

\* the else branch: DELETE ... WHERE ts_column < ?, total = changes()
UnbatchedDelete(d, gone) ==
    Deleting("commit", Unwrapped(Without(d.rows, gone)), d.committed,
             Cardinality(gone), Cardinality(gone))

DeleteAll ==
    /\ image # <<>>
    /\ image[1].pc = "all"
    /\ image' = <<UnbatchedDelete(image[1],
                                  Expired(image[1].rows, subject.cutoff_ts))>>
    /\ UNCHANGED <<priorityVars, counters, ghostVars, busVars, subject>>

\* self._conn.commit(); return total
CommitDelete ==
    /\ image # <<>>
    /\ image[1].pc = "commit"
    /\ image' = <<Deleting("returned", image[1].rows, image[1].rows,
                           image[1].removed, image[1].total)>>
    /\ UNCHANGED <<priorityVars, counters, ghostVars, busVars, subject>>

NextDelete == EnterDelete \/ DeleteBatch \/ DeleteAll \/ CommitDelete

SpecDelete == DeleteInit /\ [][NextDelete]_vars

\* the rows the open transaction of the connection has deleted
DeletedInTransaction(d) == Len(d.committed) - Len(d.rows)

\* C37: with batch_size > 0 a batch deletes at most batch_size rows, each
\* batch is committed before the next one is selected, so that no
\* transaction deletes more than batch_size rows; and what is returned is
\* the table without exactly the rows with column < cutoff.
C37_EachBatchItsOwnTransaction ==
    (image # <<>> /\ subject.batch_size > 0) =>
        /\ image[1].removed <= subject.batch_size
        /\ DeletedInTransaction(image[1]) <= subject.batch_size
        /\ image[1].pc = "returned" =>
               /\ image[1].committed
                      = Unwrapped(Without(subject.rows,
                                          Expired(subject.rows, subject.cutoff_ts)))
               /\ image[1].total
                      = Cardinality(Expired(subject.rows, subject.cutoff_ts))

(***************************************************************************)
(* sessionize as a partition of its input.                                 *)
(***************************************************************************)
\* C38: sessionize neither loses, duplicates nor reorders events: the
\* returned sessions, one after the other, are the input sequence with the
\* os.idle_start events removed, and no returned session is empty.
C38_SessionsPartitionTheInput ==
    image # <<>> =>
        /\ Flat(image[1]) = SelectSeq(subject.events, LAMBDA e : ~IsIdleStart(e))
        /\ <<>> \notin {image[1][n] : n \in DOMAIN image[1]}

\* two events equal in every field followed by an os.idle_start: both equal
\* events are returned, in one session, and the os.idle_start in none
C38_Witness ==
    /\ image # <<>>
    /\ subject.gap_seconds = 2
    /\ Len(subject.events) = MaxEvents
    /\ subject.events[1] = subject.events[2]
    /\ ~IsIdleStart(subject.events[1])
    /\ ~IsP0(subject.events[1])
    /\ IsIdleStart(subject.events[3])
    /\ image[1] = <<SubSeq(subject.events, 1, 2)>>

(***************************************************************************)
(* scripts/build_sessions.py run again and again with --use-state and      *)
(* without --start, --since-hours, --end and --dry-run, while events are   *)
(* stored in between.  events.ts holds the text the sensor sent; the state *)
(* table holds last_sessionized_ts.  A stored session is kept as the ids   *)
(* of the events it was built from.                                        *)
(***************************************************************************)
MaxBuilt == 3

MaxRuns == 3

\* the fraction of an ISO-8601 text, with its point, or ""
FractionOf(text) ==
    IF Len(text) > 20 /\ Char(text, 20) = "." THEN SubSeq(text, 20, 26) ELSE ""

\* the zone of an ISO-8601 text: what follows the seconds and the fraction
ZoneOf(text) == Suffix(text, 20 + Len(FractionOf(text)))

\* isoformat().replace("+00:00", "Z") of a parsed text: the microseconds are
\* printed only when they are not zero, a text without zone is taken as UTC
Reformatted(text) ==
    SubSeq(text, 1, 19)
        \o (IF FractionOf(text) = ".000000" THEN "" ELSE FractionOf(text))
        \o (IF ZoneOf(text) \in {"", "Z", "+00:00"} THEN "Z" ELSE ZoneOf(text))

\* _format_ts(parsed + timedelta(microseconds=1)) for the parsed last_ts
StartAfter(last_ts) ==
    SubSeq(last_ts, 1, 19)
        \o (IF FractionOf(last_ts) = "" THEN ".000001"
            ELSE SubSeq(FractionOf(last_ts), 1, 6) \o "1")
        \o (IF ZoneOf(last_ts) \in {"", "Z", "+00:00"} THEN "Z" ELSE ZoneOf(last_ts))

\* a sequence in the order of Less, equal elements in the order they had
SortedBy(seq, Less(_, _)) ==
    [k \in DOMAIN seq |->
        seq[CHOOSE i \in DOMAIN seq :
                Cardinality({j \in DOMAIN seq :
                                \/ Less(seq[j], seq[i])
                                \/ ~Less(seq[i], seq[j]) /\ j < i}) = k - 1]]

\* WHERE ts >= ? on the TEXT column, no clause when start_ts is None
Selected(ts, start_ts) == ~TextLess(ts, start_ts)

\* SQLiteStore.fetch_events(start_ts, None): ... ORDER BY ts ASC
fetch_events(rows, start_ts) ==
    SortedBy(SelectSeq(rows, LAMBDA row : start_ts = None
                                           \/ Selected(row.ts, start_ts[1])),
             LAMBDA a, b : TextLess(a.ts, b.ts))

\* a stored event; every text of the harness parses
StoredEvent(id, ts, event_type, priority) ==
    [ts |-> ts, event_type |-> event_type, priority |-> priority, id |-> id]

\* rows_to_events: ts parsed, the events sorted by it
rows_to_events(rows) ==
    SortedBy([i \in DOMAIN rows |->
                 StoredEvent(rows[i].id, InstantOf(rows[i].ts),
                             rows[i].event_type, rows[i].priority)],
             LAMBDA a, b : a.ts < b.ts)

\* start_ts of main() under --use-state: None, or one microsecond after the
\* stored last_sessionized_ts
StartOf(last_ts) == IF last_ts = None THEN None ELSE Some(StartAfter(last_ts[1]))

\* the ids of the events of the sessions
IdsOf(sessions) ==
    [n \in DOMAIN sessions |-> [j \in DOMAIN sessions[n] |-> sessions[n][j].id]]

\* records[-1].end_ts: _format_ts of the ts of the last event of the last
\* session, which prints the text the event was stored with
EndTs(rows, sessions) ==
    Reformatted((CHOOSE row \in {rows[i] : i \in DOMAIN rows} :
                    row.id = sessions[Len(sessions)][Len(sessions[Len(sessions)])].id).ts)

Built(stored, last_sessionized_ts, sessions, read, was, runs) ==
    [events |-> stored, sessions |-> sessions,
     last_sessionized_ts |-> last_sessionized_ts, read |-> read, was |-> was,
     runs |-> runs]

\* main() from fetch_events on, rows being what it fetched and sessions what
\* sessionize made of them
Sessionized(b, rows, sessions) ==
    Built(b.events,
          IF sessions # <<>> THEN Some(EndTs(rows, sessions))
          ELSE b.last_sessionized_ts,
          b.sessions \o IdsOf(sessions),
          {rows[i].id : i \in DOMAIN rows}, b.last_sessionized_ts, b.runs + 1)

BuiltTsChoices ==
    {IsoText(5, 12, 0, "", "Z"), IsoText(5, 12, 0, ".500000", "Z"),
     IsoText(5, 12, 10, "", "+00:00"), IsoText(5, 13, 0, "", "+01:00")}

BuiltKinds == {<<"os.app_focus_block", "P1">>, <<"os.idle_start", "P1">>}

BuildInit ==
    /\ subject \in [gap_minutes : {0, 15}]
    /\ image = <<Built(<<>>, None, <<>>, {}, None, 0)>>
    /\ counters = [n \in CounterNames |-> 0]
    /\ PriorityIdle
    /\ GhostIdle
    /\ BusIdle

\* the collector stores one more event
StoreEvent ==
    /\ Len(image[1].events) < MaxBuilt
    /\ \E ts \in BuiltTsChoices, kind \in BuiltKinds :
          image' = <<[image[1] EXCEPT
                        !.events = Append(@, StoredEvent(
                                                 UuidString(Len(@) + 1), ts,
                                                 kind[1], kind[2]))]>>
    /\ UNCHANGED <<priorityVars, counters, ghostVars, busVars, subject>>

\* python scripts/build_sessions.py --use-state --gap-minutes gap_minutes
BuildSessions ==
    /\ image[1].runs < MaxRuns
    /\ image' = <<Sessionized(
                      image[1],
                      fetch_events(image[1].events,
                                   StartOf(image[1].last_sessionized_ts)),
                      sessionize(rows_to_events(
                                     fetch_events(image[1].events,
                                                  StartOf(image[1].last_sessionized_ts))),
                                 subject.gap_minutes * 60))>>
    /\ UNCHANGED <<priorityVars, counters, ghostVars, busVars, subject>>

NextBuild == StoreEvent \/ BuildSessions

SpecBuild == BuildInit /\ [][NextBuild]_vars

\* the stored text of the event id
TsOf(id) ==
    (CHOOSE row \in {image[1].events[i] : i \in DOMAIN image[1].events} :
        row.id = id).ts

\* how many times the event id stands in the stored sessions
TimesInSessions(id) ==
    Cardinality({<<n, j>> \in (DOMAIN image[1].sessions) \X (1 .. MaxBuilt) :
                    j <= Len(image[1].sessions[n])
                        /\ image[1].sessions[n][j] = id})

\* C40: repeated runs with --use-state never put the same stored event into
\* two sessions: a run reads only events whose ts is strictly after the
\* last_sessionized_ts it found, and the last_sessionized_ts it leaves is
\* never earlier than the one it found.
C40_NoEventInTwoSessions ==
    /\ \A i \in DOMAIN image[1].events : TimesInSessions(image[1].events[i].id) <= 1
    /\ image[1].was # None =>
          /\ \A id \in image[1].read :
                InstantOf(TsOf(id)) > InstantOf(image[1].was[1])
          /\ InstantOf(image[1].last_sessionized_ts[1])
                >= InstantOf(image[1].was[1])

====
